---- MODULE Spec2Model ----
(***************************************************************************)
(* Model of the Manuverse data chatbot core: the query safety filter       *)
(* (query_filter.py), the query path that consults it (llm_system.py,      *)
(* api.py, main_chatbot.py), the semantic column classifier               *)
(* (data_loader.py) and the filter stage (data_processor.py).              *)
(*                                                                         *)
(* Strings that the code scans character by character (queries, keywords,  *)
(* column names) are sequences of one-character strings.                   *)
(***************************************************************************)
EXTENDS FiniteSets, Integers, Naturals, Sequences, TLC

(* ----------------------------------------------------------------------- *)
(* Characters and the string primitives of Python / re the code relies on. *)
(* ----------------------------------------------------------------------- *)
UpperChars ==
  <<"A","B","C","D","E","F","G","H","I","J","K","L","M",
    "N","O","P","Q","R","S","T","U","V","W","X","Y","Z">>

LowerChars ==
  <<"a","b","c","d","e","f","g","h","i","j","k","l","m",
    "n","o","p","q","r","s","t","u","v","w","x","y","z">>

DigitChars == {"0","1","2","3","4","5","6","7","8","9"}

\* The characters matched by \w (ASCII letters, digits, underscore).
WordChars ==
  {UpperChars[i] : i \in 1..26} \cup {LowerChars[i] : i \in 1..26}
    \cup DigitChars \cup {"_"}

\* The characters a query or a column name is written in.
Alphabet == WordChars \cup {" ", "'", "?", ",", ".", "-", "%", "\n"}

\* str.lower() on one character.
LowerTable ==
  [c \in Alphabet |->
     IF \E i \in 1..26 : UpperChars[i] = c
       THEN LowerChars[CHOOSE i \in 1..26 : UpperChars[i] = c]
       ELSE c]

LowerChar(c) == LowerTable[c]

\* str.lower().
Lower(s) == [i \in 1..Len(s) |-> LowerChar(s[i])]

\* k occurs in s at position i.
OccursAt(k, s, i) == \A j \in 1..Len(k) : s[i + j - 1] = k[j]

\* Python's "k in s" for strings: k occurs in s as a substring.
Contains(s, k) == \E i \in 1..(Len(s) - Len(k) + 1) : OccursAt(k, s, i)

IsWordAt(s, p) == p \in 1..Len(s) /\ s[p] \in WordChars

\* \b holds between positions p-1 and p of s.
WordBoundary(s, p) == IsWordAt(s, p - 1) # IsWordAt(s, p)

\* All substrings of s.
Substrings(s) ==
  UNION {{SubSeq(s, i, j) : j \in i..Len(s)} : i \in 1..Len(s)}

\* The substrings of s that begin and end at a word boundary: what \b(...)\b
\* can match.
WordSubstrings(s) ==
  LET B == {p \in 1..(Len(s) + 1) : WordBoundary(s, p)} IN
  UNION {{SubSeq(s, i, j - 1) : j \in {q \in B : q > i}} : i \in B}

\* re.search(r'\b(alts)\b', s, re.IGNORECASE) finds a match, for lower-case
\* alternatives and s given lower-cased (the flag makes the match one of the
\* lower-cased text, and \w does not depend on case).
WordSearch(alts, s) == alts \cap WordSubstrings(s) # {}

\* The lengths of the matches of \b(alts)\b that start at position i of s.
WordMatchAt(alts, s, i) ==
  IF WordBoundary(s, i)
    THEN {Len(a) : a \in {b \in alts : /\ i + Len(b) - 1 <= Len(s)
                                       /\ OccursAt(b, s, i)
                                       /\ WordBoundary(s, i + Len(b))}}
    ELSE {}

(* ----------------------------------------------------------------------- *)
(* query_filter.py: the vocabularies of ManufacturingQueryFilter.__init__. *)
(* ----------------------------------------------------------------------- *)
manufacturing_keywords ==
  {
    <<"p","r","o","d","u","c","t","i","o","n">>,
    <<"m","a","n","u","f","a","c","t","u","r","i","n","g">>, <<"f","a","c","t","o","r","y">>,
    <<"p","l","a","n","t">>, <<"a","s","s","e","m","b","l","y">>,
    <<"f","a","b","r","i","c","a","t","i","o","n">>, <<"m","a","c","h","i","n","i","n","g">>,
    <<"p","r","o","c","e","s","s","i","n","g">>, <<"a","u","t","o","m","a","t","i","o","n">>,
    <<"r","o","b","o","t","i","c","s">>, <<"c","n","c">>, <<"m","a","c","h","i","n","e","r","y">>,
    <<"q","u","a","l","i","t","y">>, <<"d","e","f","e","c","t","s">>, <<"d","e","f","e","c","t">>,
    <<"e","f","f","i","c","i","e","n","c","y">>,
    <<"p","r","o","d","u","c","t","i","v","i","t","y">>,
    <<"p","e","r","f","o","r","m","a","n","c","e">>, <<"y","i","e","l","d">>,
    <<"w","a","s","t","e">>, <<"s","c","r","a","p">>, <<"r","e","w","o","r","k">>,
    <<"i","n","s","p","e","c","t","i","o","n">>, <<"t","e","s","t","i","n","g">>,
    <<"c","o","m","p","l","i","a","n","c","e">>, <<"s","t","a","n","d","a","r","d","s">>,
    <<"i","s","o">>, <<"l","e","a","n">>, <<"s","i","x"," ","s","i","g","m","a">>,
    <<"k","a","i","z","e","n">>,
    <<"c","o","n","t","i","n","u","o","u","s"," ","i","m","p","r","o","v","e","m","e","n","t">>,
    <<"o","p","e","r","a","t","i","o","n","s">>, <<"w","o","r","k","f","l","o","w">>,
    <<"p","r","o","c","e","s","s">>, <<"p","r","o","c","e","d","u","r","e">>,
    <<"s","c","h","e","d","u","l","e">>, <<"p","l","a","n","n","i","n","g">>,
    <<"i","n","v","e","n","t","o","r","y">>, <<"s","u","p","p","l","y"," ","c","h","a","i","n">>,
    <<"l","o","g","i","s","t","i","c","s">>, <<"w","a","r","e","h","o","u","s","e">>,
    <<"d","i","s","t","r","i","b","u","t","i","o","n">>, <<"s","h","i","p","p","i","n","g">>,
    <<"r","e","c","e","i","v","i","n","g">>, <<"p","r","o","c","u","r","e","m","e","n","t">>,
    <<"s","o","u","r","c","i","n","g">>, <<"v","e","n","d","o","r">>,
    <<"s","u","p","p","l","i","e","r">>, <<"e","q","u","i","p","m","e","n","t">>,
    <<"m","a","c","h","i","n","e">>, <<"t","o","o","l">>,
    <<"m","a","i","n","t","e","n","a","n","c","e">>, <<"r","e","p","a","i","r">>,
    <<"d","o","w","n","t","i","m","e">>, <<"u","p","t","i","m","e">>,
    <<"b","r","e","a","k","d","o","w","n">>, <<"p","r","e","v","e","n","t","i","v","e">>,
    <<"p","r","e","d","i","c","t","i","v","e">>, <<"c","a","l","i","b","r","a","t","i","o","n">>,
    <<"o","e","e">>,
    <<"o","v","e","r","a","l","l"," ","e","q","u","i","p","m","e","n","t"," ","e","f","f","e","c","t","i","v","e","n","e","s","s">>,
    <<"o","p","e","r","a","t","o","r">>, <<"t","e","c","h","n","i","c","i","a","n">>,
    <<"s","u","p","e","r","v","i","s","o","r">>, <<"f","o","r","e","m","a","n">>,
    <<"s","h","i","f","t">>, <<"w","o","r","k","e","r">>, <<"e","m","p","l","o","y","e","e">>,
    <<"t","e","a","m">>, <<"c","r","e","w">>, <<"t","r","a","i","n","i","n","g">>,
    <<"s","k","i","l","l">>, <<"s","a","f","e","t","y">>, <<"k","p","i">>,
    <<"m","e","t","r","i","c">>, <<"t","a","r","g","e","t">>, <<"g","o","a","l">>,
    <<"b","e","n","c","h","m","a","r","k">>, <<"b","a","s","e","l","i","n","e">>,
    <<"t","r","e","n","d">>, <<"a","n","a","l","y","s","i","s">>, <<"r","e","p","o","r","t">>,
    <<"d","a","s","h","b","o","a","r","d">>, <<"m","o","n","i","t","o","r","i","n","g">>,
    <<"t","r","a","c","k","i","n","g">>, <<"m","a","t","e","r","i","a","l">>,
    <<"c","o","m","p","o","n","e","n","t">>, <<"p","a","r","t">>,
    <<"r","a","w"," ","m","a","t","e","r","i","a","l">>,
    <<"f","i","n","i","s","h","e","d"," ","g","o","o","d","s">>, <<"b","a","t","c","h">>,
    <<"l","o","t">>, <<"s","e","r","i","a","l"," ","n","u","m","b","e","r">>, <<"b","o","m">>,
    <<"b","i","l","l"," ","o","f"," ","m","a","t","e","r","i","a","l","s">>, <<"d","a","t","a">>,
    <<"c","h","a","r","t">>, <<"g","r","a","p","h">>,
    <<"v","i","s","u","a","l","i","z","a","t","i","o","n">>,
    <<"s","t","a","t","i","s","t","i","c","s">>, <<"c","o","r","r","e","l","a","t","i","o","n">>,
    <<"p","a","t","t","e","r","n">>, <<"i","n","s","i","g","h","t">>,
    <<"s","u","m","m","a","r","y">>, <<"o","v","e","r","v","i","e","w">>,
    <<"c","o","m","p","a","r","i","s","o","n">>, <<"r","a","n","k","i","n","g">>,
    <<"t","o","p"," ","p","e","r","f","o","r","m","e","r","s">>,
    <<"b","o","t","t","o","m"," ","p","e","r","f","o","r","m","e","r","s">>,
    <<"o","u","t","l","i","e","r","s">>, <<"a","n","o","m","a","l","i","e","s">>
  }

data_analysis_keywords ==
  {
    <<"s","h","o","w">>, <<"d","i","s","p","l","a","y">>, <<"p","l","o","t">>,
    <<"c","h","a","r","t">>, <<"g","r","a","p","h">>, <<"v","i","s","u","a","l","i","z","e">>,
    <<"a","n","a","l","y","z","e">>, <<"c","o","m","p","a","r","e">>, <<"t","r","e","n","d">>,
    <<"p","a","t","t","e","r","n">>, <<"c","o","r","r","e","l","a","t","i","o","n">>,
    <<"s","u","m","m","a","r","y">>, <<"o","v","e","r","v","i","e","w">>, <<"t","o","p">>,
    <<"b","o","t","t","o","m">>, <<"b","e","s","t">>, <<"w","o","r","s","t">>,
    <<"h","i","g","h","e","s","t">>, <<"l","o","w","e","s","t">>, <<"a","v","e","r","a","g","e">>,
    <<"t","o","t","a","l">>, <<"c","o","u","n","t">>, <<"p","e","r","c","e","n","t","a","g","e">>,
    <<"r","a","t","e">>, <<"r","a","t","i","o">>,
    <<"d","i","s","t","r","i","b","u","t","i","o","n">>, <<"f","r","e","q","u","e","n","c","y">>,
    <<"r","a","n","g","e">>, <<"v","a","r","i","a","n","c","e">>,
    <<"s","t","a","n","d","a","r","d"," ","d","e","v","i","a","t","i","o","n">>,
    <<"m","e","d","i","a","n">>, <<"q","u","a","r","t","i","l","e">>,
    <<"p","e","r","c","e","n","t","i","l","e">>, <<"o","u","t","l","i","e","r">>,
    <<"a","n","o","m","a","l","y">>, <<"i","n","s","i","g","h","t">>,
    <<"p","e","r","f","o","r","m","e","r","s">>, <<"p","e","r","f","o","r","m","a","n","c","e">>,
    <<"r","a","n","k","i","n","g">>, <<"c","o","m","p","a","r","i","s","o","n">>
  }

unsafe_patterns ==
  <<
    {<<"s","e","x">>, <<"s","e","x","u","a","l">>, <<"p","o","r","n">>, <<"n","u","d","e">>, <<"n","a","k","e","d">>, <<"e","x","p","l","i","c","i","t">>},
    {<<"a","d","u","l","t">>, <<"x","x","x">>, <<"e","r","o","t","i","c">>, <<"i","n","t","i","m","a","t","e">>},
    {<<"k","i","l","l">>, <<"m","u","r","d","e","r">>, <<"v","i","o","l","e","n","c","e">>, <<"w","e","a","p","o","n">>, <<"b","o","m","b">>, <<"t","e","r","r","o","r","i","s","t">>},
    {<<"s","u","i","c","i","d","e">>, <<"s","e","l","f","-","h","a","r","m">>, <<"h","u","r","t">>, <<"p","a","i","n">>, <<"t","o","r","t","u","r","e">>},
    {<<"d","r","u","g","s">>, <<"i","l","l","e","g","a","l">>, <<"c","r","i","m","i","n","a","l">>, <<"h","a","c","k">>, <<"s","t","e","a","l">>, <<"f","r","a","u","d">>},
    {<<"p","i","r","a","c","y">>, <<"c","o","p","y","r","i","g","h","t">>, <<"c","r","a","c","k">>, <<"b","y","p","a","s","s">>},
    {<<"p","a","s","s","w","o","r","d">>, <<"c","r","e","d","i","t"," ","c","a","r","d">>, <<"s","s","n">>, <<"s","o","c","i","a","l"," ","s","e","c","u","r","i","t","y">>, <<"b","a","n","k"," ","a","c","c","o","u","n","t">>},
    {<<"p","h","o","n","e"," ","n","u","m","b","e","r">>, <<"a","d","d","r","e","s","s">>, <<"e","m","a","i","l">>, <<"p","e","r","s","o","n","a","l">>}
  >>

irrelevant_patterns ==
  <<
    {<<"m","o","v","i","e">>, <<"f","i","l","m">>, <<"m","u","s","i","c">>, <<"s","o","n","g">>, <<"c","e","l","e","b","r","i","t","y">>, <<"a","c","t","o","r">>, <<"a","c","t","r","e","s","s">>},
    {<<"g","a","m","e">>, <<"g","a","m","i","n","g">>, <<"v","i","d","e","o"," ","g","a","m","e">>, <<"s","p","o","r","t">>, <<"f","o","o","t","b","a","l","l">>, <<"b","a","s","k","e","t","b","a","l","l">>},
    {<<"f","a","c","e","b","o","o","k">>, <<"t","w","i","t","t","e","r">>, <<"i","n","s","t","a","g","r","a","m">>, <<"t","i","k","t","o","k">>, <<"s","o","c","i","a","l"," ","m","e","d","i","a">>},
    {<<"d","a","t","i","n","g">>, <<"r","e","l","a","t","i","o","n","s","h","i","p">>, <<"f","r","i","e","n","d","s","h","i","p">>, <<"p","e","r","s","o","n","a","l"," ","l","i","f","e">>},
    {<<"r","e","c","i","p","e">>, <<"c","o","o","k","i","n","g">>, <<"f","o","o","d">>, <<"r","e","s","t","a","u","r","a","n","t">>, <<"c","u","i","s","i","n","e">>},
    {<<"t","r","a","v","e","l">>, <<"v","a","c","a","t","i","o","n">>, <<"t","o","u","r","i","s","m">>, <<"c","o","u","n","t","r","y">>, <<"c","i","t","y">>, <<"g","e","o","g","r","a","p","h","y">>},
    {<<"w","e","a","t","h","e","r">>, <<"t","e","m","p","e","r","a","t","u","r","e">>, <<"r","a","i","n">>, <<"s","n","o","w">>, <<"c","l","i","m","a","t","e">>},
    {<<"p","o","l","i","t","i","c","s">>, <<"p","o","l","i","t","i","c","a","l">>, <<"r","e","l","i","g","i","o","n">>, <<"r","e","l","i","g","i","o","u","s">>, <<"g","o","d">>, <<"c","h","u","r","c","h">>},
    {<<"d","o","c","t","o","r">>, <<"m","e","d","i","c","i","n","e">>, <<"h","o","s","p","i","t","a","l">>, <<"d","i","s","e","a","s","e">>, <<"s","y","m","p","t","o","m">>},
    {<<"s","t","o","c","k">>, <<"i","n","v","e","s","t","m","e","n","t">>, <<"c","r","y","p","t","o">>, <<"b","i","t","c","o","i","n">>, <<"t","r","a","d","i","n","g">>}
  >>

\* self.unsafe_regex / self.irrelevant_regex: the patterns joined with '|'.
unsafe_regex(query) ==
  WordSearch(UNION {unsafe_patterns[p] : p \in 1..Len(unsafe_patterns)}, Lower(query))

irrelevant_regex(query) ==
  WordSearch(UNION {irrelevant_patterns[p] : p \in 1..Len(irrelevant_patterns)},
             Lower(query))

\* QueryFilterResult
ALLOWED == "allowed"
BLOCKED_IRRELEVANT == "blocked_irrelevant"
BLOCKED_UNSAFE == "blocked_unsafe"
BLOCKED_PERSONAL == "blocked_personal"

QueryFilterResult == {ALLOWED, BLOCKED_IRRELEVANT, BLOCKED_UNSAFE, BLOCKED_PERSONAL}

\* The message texts of the filter (abbreviated to their opening words).
UnsafeMessage == "I'm designed specifically for manufacturing data analysis and cannot assist"
IrrelevantMessage == "I'm a specialized manufacturing data analysis assistant. I can only help with"
GuidanceMessage == "I specialize in manufacturing and industrial data analysis. I can help you with"
AllowedMessage == "Query is safe and relevant to manufacturing data analysis."

\* _check_unsafe_content(query): (status, message, checks made)
check_unsafe_content(query) ==
  IF unsafe_regex(query)
    THEN [status |-> BLOCKED_UNSAFE, message |-> UnsafeMessage, ran |-> {"unsafe"}]
    ELSE [status |-> ALLOWED, message |-> "", ran |-> {"unsafe"}]

\* sum(1 for keyword in self.manufacturing_keywords if keyword in query_lower)
manufacturing_score(query_lower) ==
  Cardinality(manufacturing_keywords \cap Substrings(query_lower))

\* sum(1 for keyword in self.data_analysis_keywords if keyword in query_lower)
analysis_score(query_lower) ==
  Cardinality(data_analysis_keywords \cap Substrings(query_lower))

\* generic_data_patterns of _check_manufacturing_relevance
generic_first == {<<"w","h","a","t">>, <<"s","h","o","w">>, <<"h","o","w">>,
                  <<"w","h","i","c","h">>, <<"w","h","e","n">>, <<"w","h","e","r","e">>}

generic_last == {<<"d","a","t","a">>, <<"t","r","e","n","d">>, <<"c","h","a","r","t">>,
                 <<"g","r","a","p","h">>}

generic_words ==
  << {<<"a","n","a","l","y","z","e">>, <<"a","n","a","l","y","s","i","s">>,
      <<"c","o","m","p","a","r","e">>, <<"c","o","m","p","a","r","i","s","o","n">>},
     {<<"t","o","p">>, <<"b","e","s","t">>, <<"w","o","r","s","t">>,
      <<"h","i","g","h","e","s","t">>, <<"l","o","w","e","s","t">>},
     {<<"s","u","m","m","a","r","y">>, <<"o","v","e","r","v","i","e","w">>,
      <<"r","e","p","o","r","t">>} >>

\* r'\b(what|...)\b.*\b(data|...)\b': '.' does not match a newline.
generic_span(s) ==
  \E i \in 1..Len(s) : \E n \in WordMatchAt(generic_first, s, i) :
    \E j \in (i + n)..Len(s) :
      /\ WordMatchAt(generic_last, s, j) # {}
      /\ \A k \in (i + n)..(j - 1) : s[k] # "\n"

generic_data_patterns(query_lower) ==
  \/ generic_span(query_lower)
  \/ \E p \in 1..Len(generic_words) : WordSearch(generic_words[p], query_lower)

\* _check_manufacturing_relevance with the keyword scores consulted before the
\* irrelevant-topic patterns.
check_manufacturing_relevance_score_first(query) ==
  LET query_lower == Lower(query) IN
  IF analysis_score(query_lower) >= 1 \/ manufacturing_score(query_lower) >= 1
    THEN [status |-> ALLOWED, message |-> "", ran |-> {"score"}]
  ELSE IF irrelevant_regex(query)
    THEN [status |-> BLOCKED_IRRELEVANT, message |-> IrrelevantMessage,
          ran |-> {"score", "irrelevant"}]
  ELSE IF generic_data_patterns(query_lower)
    THEN [status |-> ALLOWED, message |-> "", ran |-> {"irrelevant", "score", "generic"}]
  ELSE [status |-> BLOCKED_IRRELEVANT, message |-> GuidanceMessage,
        ran |-> {"irrelevant", "score", "generic"}]

\* _check_manufacturing_relevance without the analysis-verb score.
check_manufacturing_relevance_no_analysis(query) ==
  LET query_lower == Lower(query) IN
  IF irrelevant_regex(query)
    THEN [status |-> BLOCKED_IRRELEVANT, message |-> IrrelevantMessage,
          ran |-> {"irrelevant"}]
  ELSE IF manufacturing_score(query_lower) >= 1
    THEN [status |-> ALLOWED, message |-> "", ran |-> {"irrelevant", "score"}]
  ELSE IF generic_data_patterns(query_lower)
    THEN [status |-> ALLOWED, message |-> "", ran |-> {"irrelevant", "score", "generic"}]
  ELSE [status |-> BLOCKED_IRRELEVANT, message |-> GuidanceMessage,
        ran |-> {"irrelevant", "score", "generic"}]

\* _check_manufacturing_relevance(query): (status, message, checks made)
check_manufacturing_relevance(query) ==
  LET query_lower == Lower(query) IN
  IF irrelevant_regex(query)
    THEN [status |-> BLOCKED_IRRELEVANT, message |-> IrrelevantMessage,
          ran |-> {"irrelevant"}]
  ELSE IF analysis_score(query_lower) >= 1
    THEN [status |-> ALLOWED, message |-> "", ran |-> {"irrelevant", "score"}]
  ELSE IF manufacturing_score(query_lower) >= 1
    THEN [status |-> ALLOWED, message |-> "", ran |-> {"irrelevant", "score"}]
  ELSE IF generic_data_patterns(query_lower)
    THEN [status |-> ALLOWED, message |-> "", ran |-> {"irrelevant", "score", "generic"}]
  ELSE [status |-> BLOCKED_IRRELEVANT, message |-> GuidanceMessage,
        ran |-> {"irrelevant", "score", "generic"}]

\* FilterResponse.__init__
FilterResponse(status, message, ran) ==
  [status |-> status, message |-> message, is_allowed |-> (status = ALLOWED), ran |-> ran]

\* filter_query with the two checks in the other order.
filter_query_relevance_first(query) ==
  LET relevance_result == check_manufacturing_relevance(query) IN
  IF relevance_result.status # ALLOWED
    THEN FilterResponse(relevance_result.status, relevance_result.message,
                        relevance_result.ran)
    ELSE LET unsafe_result == check_unsafe_content(query) IN
         IF unsafe_result.status # ALLOWED
           THEN FilterResponse(unsafe_result.status, unsafe_result.message,
                               unsafe_result.ran \cup relevance_result.ran)
           ELSE FilterResponse(ALLOWED, AllowedMessage,
                               unsafe_result.ran \cup relevance_result.ran)

\* ManufacturingQueryFilter.filter_query
filter_query(query) ==
  LET unsafe_result == check_unsafe_content(query) IN
  IF unsafe_result.status # ALLOWED
    THEN FilterResponse(unsafe_result.status, unsafe_result.message, unsafe_result.ran)
    ELSE LET relevance_result == check_manufacturing_relevance(query) IN
         IF relevance_result.status # ALLOWED
           THEN FilterResponse(relevance_result.status, relevance_result.message,
                               unsafe_result.ran \cup relevance_result.ran)
           ELSE FilterResponse(ALLOWED, AllowedMessage,
                               unsafe_result.ran \cup relevance_result.ran)

(* ----------------------------------------------------------------------- *)
(* DataFrames.  A cell is a number (a rational n/d), a text that parses as *)
(* a date, a text that does not, a timestamp, an infinity or a null        *)
(* (NaN / None / NaT).  Dates and timestamps are day numbers.              *)
(* ----------------------------------------------------------------------- *)
Num(n) == [k |-> "num", n |-> n, d |-> 1]
Str(i) == [k |-> "str", n |-> i, d |-> 1]
DateStr(day) == [k |-> "datestr", n |-> day, d |-> 1]
Ts(day) == [k |-> "ts", n |-> day, d |-> 1]
Inf == [k |-> "inf", n |-> 1, d |-> 1]
Null == [k |-> "null", n |-> 0, d |-> 1]

Min(a, b) == IF a <= b THEN a ELSE b

ColSet(df) == {df.columns[i] : i \in 1..Len(df.columns)}

\* Series.dropna()
dropna(col) == SelectSeq(col, LAMBDA c : c.k # "null")

\* Series.head(n)
head(col, n) == SubSeq(col, 1, Min(n, Len(col)))

\* Series.nunique(): distinct non-null values
nunique(col) == Cardinality({col[i] : i \in 1..Len(col)} \ {Null})

\* pd.to_datetime(scalar) returns (TRUE) or raises (FALSE); None gives NaT.
to_datetime_parses(cell) == cell.k \in {"datestr", "ts", "num", "null"}

\* 1970-01-01, which is 19723 days before 2024-01-01, day 1
Epoch == Ts(1 - 19723)

\* pd.to_datetime(series, errors='coerce') on one cell; a number is taken as
\* nanoseconds since the epoch.
to_datetime_coerce(cell) ==
  CASE cell.k = "datestr" -> Ts(cell.n)
    [] cell.k = "ts" -> cell
    [] cell.k = "num" -> Epoch
    [] OTHER -> Null

\* pd.to_numeric(series, errors='coerce') on one cell; a timestamp gives its
\* integer count.
to_numeric_coerce(cell) ==
  CASE cell.k \in {"num", "inf"} -> cell
    [] cell.k = "ts" -> Num(cell.n)
    [] OTHER -> Null

\* Series.replace([np.inf, -np.inf], np.nan) on one cell
replace_inf(cell) == IF cell.k = "inf" THEN Null ELSE cell

\* pd.api.types.is_numeric_dtype
is_numeric_dtype(dtype) == dtype \in {"int64", "float64"}

\* pd.api.types.is_datetime64_any_dtype
is_datetime64_any_dtype(dtype) == dtype = "datetime64"

(* ----------------------------------------------------------------------- *)
(* data_loader.py: the rule-based classifier.                              *)
(* ----------------------------------------------------------------------- *)
Categories ==
  {"date", "numeric_measure", "quality_measure", "efficiency_measure",
   "time_measure", "categorical", "identifier", "other"}

NumericCategories ==
  {"numeric_measure", "quality_measure", "efficiency_measure", "time_measure"}

date_keywords ==
  {
    <<"d","a","t","e">>, <<"t","i","m","e">>, <<"t","i","m","e","s","t","a","m","p">>,
    <<"d","a","y">>, <<"m","o","n","t","h">>, <<"y","e","a","r">>
  }

quantity_keywords ==
  {
    <<"p","r","o","d","u","c","t","i","o","n">>, <<"o","u","t","p","u","t">>,
    <<"v","o","l","u","m","e">>, <<"q","u","a","n","t","i","t","y">>, <<"c","o","u","n","t">>,
    <<"a","m","o","u","n","t">>, <<"s","a","l","e","s">>, <<"r","e","v","e","n","u","e">>,
    <<"u","n","i","t","s">>, <<"t","o","t","a","l">>, <<"s","u","m">>, <<"v","a","l","u","e">>,
    <<"s","c","o","r","e">>, <<"m","e","a","s","u","r","e","m","e","n","t">>,
    <<"r","e","s","u","l","t">>, <<"d","a","t","a">>, <<"n","u","m","b","e","r">>,
    <<"l","e","v","e","l">>, <<"c","o","n","c","e","n","t","r","a","t","i","o","n">>
  }

quality_keywords ==
  {
    <<"d","e","f","e","c","t">>, <<"e","r","r","o","r">>, <<"f","a","u","l","t">>,
    <<"f","a","i","l","u","r","e">>, <<"r","e","j","e","c","t">>, <<"w","a","s","t","e">>,
    <<"s","c","r","a","p">>, <<"n","e","g","a","t","i","v","e">>, <<"p","r","o","b","l","e","m">>,
    <<"i","s","s","u","e">>
  }

efficiency_keywords ==
  {
    <<"e","f","f","i","c","i","e","n","c","y">>, <<"r","a","t","e">>,
    <<"p","e","r","c","e","n","t">>, <<"%">>, <<"r","a","t","i","o">>,
    <<"p","e","r","f","o","r","m","a","n","c","e">>, <<"p","e","r","c","e","n","t","a","g","e">>,
    <<"p","r","o","p","o","r","t","i","o","n">>, <<"s","h","a","r","e">>
  }

time_keywords ==
  {
    <<"t","i","m","e">>, <<"d","u","r","a","t","i","o","n">>, <<"d","o","w","n","t","i","m","e">>,
    <<"u","p","t","i","m","e">>, <<"m","i","n","u","t","e","s">>, <<"h","o","u","r","s">>,
    <<"p","e","r","i","o","d">>, <<"i","n","t","e","r","v","a","l">>, <<"c","y","c","l","e">>
  }

AnyKeyword(keywords, s) == \E kw \in keywords : Contains(s, kw)

\* sample_values = df[col].dropna().head(10)
SampleRows == 10

\* "unique_ratio < 0.1 or df[col].nunique() < 20"
LowCardinality == 20

\* 0.1 as the ratio 1 / RatioDen
RatioDen == 10

\* The keyword chain for a numeric column (data_loader.py lines 160-183).
numeric_category(col_lower) ==
  IF AnyKeyword(quantity_keywords, col_lower) THEN "numeric_measure"
  ELSE IF AnyKeyword(quality_keywords, col_lower) THEN "quality_measure"
  ELSE IF AnyKeyword(efficiency_keywords, col_lower) THEN "efficiency_measure"
  ELSE IF AnyKeyword(time_keywords, col_lower) THEN "time_measure"
  ELSE "numeric_measure"

\* The cardinality test with "at most 20" in place of "below 20".
text_category_at_most(distinct, rows) ==
  IF distinct * RatioDen < rows \/ distinct <= LowCardinality
    THEN "categorical"
    ELSE "identifier"

\* The cardinality test for a text column (lines 186-191): nunique / len(df)
\* below 0.1, or nunique below 20.
text_category(distinct, rows) ==
  IF distinct * RatioDen < rows \/ distinct < LowCardinality
    THEN "categorical"
    ELSE "identifier"

\* The value-based date test of an object column (lines 148-154).
parses_as_date(col) ==
  LET sample_values == head(dropna(col), SampleRows) IN
  to_datetime_parses(IF Len(sample_values) > 0 THEN sample_values[1] ELSE Null)

\* One iteration of the loop of detect_columns_by_rules.
detect_column(df, col) ==
  LET col_lower == Lower(col) IN
  IF AnyKeyword(date_keywords, col_lower) THEN "date"
  ELSE IF df.dtype[col] = "object" /\ parses_as_date(df.data[col]) THEN "date"
  ELSE IF is_numeric_dtype(df.dtype[col]) THEN numeric_category(col_lower)
  ELSE IF df.dtype[col] \in {"object", "category"}
    THEN text_category(nunique(df.data[col]), df.nrows)
  ELSE "other"

\* A column mapping is a dict: its keys in insertion order and their values.
detect_columns_by_rules(df) ==
  [keys |-> df.columns, type |-> [c \in ColSet(df) |-> detect_column(df, c)]]

\* [col for col, type_ in column_mapping.items() if type_ in types]
ColumnsOfType(mapping, types) ==
  SelectSeq(mapping.keys, LAMBDA c : mapping.type[c] \in types)

\* Column names used by the datasets below.
c_revenue_usd == <<"r","e","v","e","n","u","e","_","u","s","d">>
c_defect_count == <<"d","e","f","e","c","t","_","c","o","u","n","t">>
c_efficiency_pct == <<"e","f","f","i","c","i","e","n","c","y","_","p","c","t">>
c_downtime_minutes == <<"d","o","w","n","t","i","m","e","_","m","i","n","u","t","e","s">>
c_defects == <<"d","e","f","e","c","t","s">>
c_cycle == <<"c","y","c","l","e">>
c_level == <<"l","e","v","e","l">>
c_region == <<"r","e","g","i","o","n">>
c_employee_id == <<"e","m","p","l","o","y","e","e","_","i","d">>
c_shipped == <<"s","h","i","p","p","e","d">>
c_date == <<"d","a","t","e">>
c_logged == <<"l","o","g","g","e","d">>

\* The datasets a file can hold: each column of the catalogue has a name and
\* a kind of content.
Catalogue ==
  << [name |-> c_revenue_usd, kind |-> "num"],
     [name |-> c_defect_count, kind |-> "num"],
     [name |-> c_efficiency_pct, kind |-> "num"],
     [name |-> c_downtime_minutes, kind |-> "num"],
     [name |-> c_defects, kind |-> "num"],
     [name |-> c_cycle, kind |-> "num"],
     [name |-> c_level, kind |-> "num_inf"],
     [name |-> c_region, kind |-> "text"],
     [name |-> c_employee_id, kind |-> "text"],
     [name |-> c_shipped, kind |-> "datestr"],
     [name |-> c_date, kind |-> "datestr"],
     [name |-> c_logged, kind |-> "ts"] >>

MaxCols == 2

MaxRows == 201

RowCounts == {2, 20, 200, MaxRows}

\* Number of distinct texts a text column cycles through.
Cards == {1, 19, 20, 21}

\* The dtype pandas infers when it reads a column of this kind.
KindDtype(kind) ==
  CASE kind \in {"num", "num0", "code"} -> "int64"
    [] kind = "num_inf" -> "float64"
    [] kind = "ts" -> "datetime64"
    [] OTHER -> "object"

MakeColumn(kind, card, rows) ==
  [i \in 1..rows |->
     CASE kind = "num" -> Num(i)
       [] kind = "num0" -> Num(i - 1)
       [] kind = "num_inf" -> IF i = 1 THEN Inf ELSE Num(i)
       [] kind = "code" -> Num((i - 1) % card)
       [] kind = "text" -> Str((i - 1) % card)
       [] kind = "datestr" -> IF i = 1 /\ rows > 1 THEN Null ELSE DateStr(1 + (i % 3))
       [] kind = "ts" -> Ts(i)]

\* The i-th smallest element of a set of numbers.
Nth(S, i) == CHOOSE x \in S : Cardinality({y \in S : y < x}) = i - 1

MakeDataFrameFrom(catalogue, S, card, rows) ==
  LET cols == [i \in 1..Cardinality(S) |-> catalogue[Nth(S, i)]]
      byName(c) == CHOOSE i \in 1..Len(cols) : cols[i].name = c
      names == {cols[i].name : i \in 1..Len(cols)}
  IN [columns |-> [i \in 1..Len(cols) |-> cols[i].name],
      dtype |-> [c \in names |-> KindDtype(cols[byName(c)].kind)],
      data |-> [c \in names |-> MakeColumn(cols[byName(c)].kind, card, rows)],
      nrows |-> rows]

MakeDataFrame(S, card, rows) == MakeDataFrameFrom(Catalogue, S, card, rows)

Datasets ==
  {MakeDataFrame(S, card, rows) :
     S \in {T \in SUBSET (1..Len(Catalogue)) : Cardinality(T) \in 1..MaxCols},
     card \in Cards, rows \in RowCounts}

NoDf == [columns |-> <<>>, dtype |-> <<>>, data |-> <<>>, nrows |-> 0]

NoMapping == [keys |-> <<>>, type |-> <<>>]

\* What the text-generation model may answer to the column-analysis prompt:
\* raise, answer without a JSON object, or answer with a JSON object, which
\* json.loads turns into the mapping used as it is.
LlmMappings(df) ==
  { NoMapping,
    [keys |-> df.columns, type |-> [c \in ColSet(df) |-> "metric"]],
    [keys |-> <<df.columns[1]>>, type |-> [c \in {df.columns[1]} |-> "categorical"]],
    [keys |-> <<df.columns[1]>>, type |-> [c \in {df.columns[1]} |-> "numeric_measure"]] }

ColumnReplies(df) ==
  {[kind |-> "raises", mapping |-> NoMapping], [kind |-> "no_json", mapping |-> NoMapping],
   [kind |-> "bad_json", mapping |-> NoMapping]}
    \cup {[kind |-> "json", mapping |-> m] : m \in LlmMappings(df)}

NoReply == [kind |-> "none", mapping |-> NoMapping]

\* analyze_columns_with_llm as it would be if only a missing LLM system led
\* to the rules: whatever the model's call comes to is returned as the mapping.
analyze_columns_with_llm_no_fallback(df, llm, reply) ==
  IF llm = "None" THEN detect_columns_by_rules(df) ELSE reply.mapping

\* analyze_columns_with_llm: the model's call raises, its text has no
\* "{...}" (no_json), json.loads raises on it (bad_json), or it is JSON.
analyze_columns_with_llm(df, llm, reply) ==
  IF llm = "None" THEN detect_columns_by_rules(df)
  ELSE IF reply.kind = "json" THEN reply.mapping
  ELSE detect_columns_by_rules(df)

\* The dtype of a column after pd.to_numeric and the replacement of infinities.
NumericDtype(col) ==
  IF \A i \in 1..Len(col) : col[i].k = "num" /\ col[i].d = 1 THEN "int64" ELSE "float64"

CoerceNumeric(cell) == replace_inf(to_numeric_coerce(cell))

\* validate_universal_columns: (processed_df, metadata)
validate_universal_columns(df, llm, reply) ==
  LET column_mapping == analyze_columns_with_llm(df, llm, reply)
      date_columns == ColumnsOfType(column_mapping, {"date"})
      numeric_columns == ColumnsOfType(column_mapping, NumericCategories)
      inList(c, list) == \E i \in 1..Len(list) : list[i] = c
      coerced(c) ==
        IF inList(c, date_columns)
          THEN [i \in 1..df.nrows |-> to_datetime_coerce(df.data[c][i])]
        ELSE IF inList(c, numeric_columns)
          THEN [i \in 1..df.nrows |-> CoerceNumeric(df.data[c][i])]
        ELSE df.data[c]
      processed_df ==
        [df EXCEPT !.data = [c \in ColSet(df) |-> coerced(c)],
                   !.dtype = [c \in ColSet(df) |->
                                IF inList(c, date_columns) THEN "datetime64"
                                ELSE IF inList(c, numeric_columns)
                                  THEN NumericDtype(coerced(c))
                                ELSE df.dtype[c]]]
  IN [df |-> processed_df,
      metadata |->
        [column_mapping |-> column_mapping,
         date_columns |-> date_columns,
         numeric_measures |-> ColumnsOfType(column_mapping, {"numeric_measure"}),
         quality_measures |-> ColumnsOfType(column_mapping, {"quality_measure"}),
         efficiency_measures |-> ColumnsOfType(column_mapping, {"efficiency_measure"}),
         categorical_columns |-> ColumnsOfType(column_mapping, {"categorical"}),
         time_measures |-> ColumnsOfType(column_mapping, {"time_measure"})]]

NoMetadata ==
  [column_mapping |-> NoMapping, date_columns |-> <<>>, numeric_measures |-> <<>>,
   quality_measures |-> <<>>, efficiency_measures |-> <<>>,
   categorical_columns |-> <<>>, time_measures |-> <<>>]

(* ----------------------------------------------------------------------- *)
(* data_processor.py: float arithmetic on cells and DataFrame updates.     *)
(* ----------------------------------------------------------------------- *)
\* body(x), with x evaluated once and in full before body reads it.
With(x, body(_)) == CHOOSE r \in {body(v) : v \in {y \in {x} : y = y}} : TRUE

Abs(x) == IF x < 0 THEN -x ELSE x

Sign(x) == IF x < 0 THEN -1 ELSE 1

RECURSIVE Gcd(_, _)
Gcd(a, b) == IF b = 0 THEN a ELSE Gcd(b, a % b)

\* The number n/d in lowest terms, d > 0.
Rat(n, d) ==
  LET g == Gcd(Abs(n), Abs(d))
  IN [k |-> "num", n |-> Sign(d) * (n \div g), d |-> Abs(d) \div g]

SignedInf(s) == [k |-> "inf", n |-> s, d |-> 1]

IsNumber(cell) == cell.k \in {"num", "inf"}

\* a / b on floats: x/0 is an infinity, 0/0 and NaN operands give NaN.
FDiv(a, b) ==
  IF ~IsNumber(a) \/ ~IsNumber(b) THEN Null
  ELSE IF a.k = "num" /\ b.k = "num"
    THEN IF b.n = 0
           THEN IF a.n = 0 THEN Null ELSE SignedInf(Sign(a.n))
           ELSE Rat(a.n * b.d, a.d * b.n)
  ELSE IF a.k = "inf" /\ b.k = "num" THEN SignedInf(a.n * Sign(b.n))
  ELSE IF a.k = "num" THEN Num(0)
  ELSE Null

\* a * b on floats.
FMul(a, b) ==
  IF ~IsNumber(a) \/ ~IsNumber(b) THEN Null
  ELSE IF a.k = "num" /\ b.k = "num" THEN Rat(a.n * b.n, a.d * b.d)
  ELSE IF (a.k = "num" /\ a.n = 0) \/ (b.k = "num" /\ b.n = 0) THEN Null
  ELSE SignedInf(Sign(a.n) * Sign(b.n))

\* a - b on floats.
FSub(a, b) ==
  IF ~IsNumber(a) \/ ~IsNumber(b) THEN Null
  ELSE IF a.k = "num" /\ b.k = "num" THEN Rat(a.n * b.d - b.n * a.d, a.d * b.d)
  ELSE IF a.k = "inf" /\ b.k = "inf"
    THEN IF a.n = b.n THEN Null ELSE a
  ELSE IF a.k = "inf" THEN a
  ELSE SignedInf(-b.n)

\* a + b on floats.
FAdd(a, b) == FSub(a, FSub(Num(0), b))

\* Series.fillna(0) on one cell
fillna0(cell) == IF cell.k = "null" THEN Num(0) ELSE cell

\* Series.sum(): nulls are skipped.
RECURSIVE SeriesSum(_)
SeriesSum(col) ==
  IF Len(col) = 0 THEN Num(0)
  ELSE With(SeriesSum(SubSeq(col, 1, Len(col) - 1)),
            LAMBDA rest : IF IsNumber(col[Len(col)])
                            THEN FAdd(rest, col[Len(col)])
                            ELSE rest)

\* "total > 0 and not pd.isna(total)"
IsPositive(cell) == IsNumber(cell) /\ cell.n > 0

\* df[name] = values: the column is replaced where it stands, or appended.
SetColumn(df, name, values, dtype) ==
  [columns |-> IF name \in ColSet(df) THEN df.columns ELSE Append(df.columns, name),
   dtype |-> [c \in ColSet(df) \cup {name} |-> IF c = name THEN dtype ELSE df.dtype[c]],
   data |-> [c \in ColSet(df) \cup {name} |-> IF c = name THEN values ELSE df.data[c]],
   nrows |-> df.nrows]

\* df[mask]: the rows whose index satisfies keep, in order.
SelectRows(df, keep(_)) ==
  With(SelectSeq([i \in 1..df.nrows |-> i], keep),
       LAMBDA idx :
         [columns |-> df.columns,
          dtype |-> df.dtype,
          data |-> [c \in ColSet(df) |-> [j \in 1..Len(idx) |-> df.data[c][idx[j]]]],
          nrows |-> Len(idx)])

\* df[selected_columns]: the listed columns in the listed order.
SelectColumns(df, selected) ==
  LET names == {selected[i] : i \in 1..Len(selected)}
  IN [columns |-> selected,
      dtype |-> [c \in names |-> df.dtype[c]],
      data |-> [c \in names |-> df.data[c]],
      nrows |-> df.nrows]

\* The column as datetime64: converted with errors='coerce' unless it is one.
AsDatetime(df, col) ==
  IF is_datetime64_any_dtype(df.dtype[col]) THEN df
  ELSE SetColumn(df, col,
                 [i \in 1..df.nrows |-> to_datetime_coerce(df.data[col][i])],
                 "datetime64")

(* ----------------------------------------------------------------------- *)
(* data_processor.py: filter_manufacturing_data and what it calls.         *)
(* Day n is 2024-01-n; earlier days have smaller numbers.                  *)
(* ----------------------------------------------------------------------- *)
NoDate == [ok |-> FALSE, day |-> 0]

SomeDate(day) == [ok |-> TRUE, day |-> day]

DigitSeq == <<"0","1","2","3","4","5","6","7","8","9">>

DigitValue(c) == (CHOOSE i \in 1..Len(DigitSeq) : DigitSeq[i] = c) - 1

\* int() of a run of digits
RECURSIVE Decimal(_)
Decimal(s) ==
  IF Len(s) = 0 THEN 0
  ELSE 10 * Decimal(SubSeq(s, 1, Len(s) - 1)) + DigitValue(s[Len(s)])

IsoPrefix == <<"2","0","2","4","-","0","1","-">>

\* pd.to_datetime(date_expr) on a scalar text: a date, or an exception.  The
\* texts "today" and "now" are read as the wall-clock time.
to_datetime_scalar(date_expr, now) ==
  IF date_expr \in {<<"t","o","d","a","y">>, <<"n","o","w">>} THEN SomeDate(now)
  ELSE IF /\ Len(date_expr) = Len(IsoPrefix) + 2
          /\ SubSeq(date_expr, 1, Len(IsoPrefix)) = IsoPrefix
          /\ date_expr[Len(IsoPrefix) + 1] \in DigitChars
          /\ date_expr[Len(IsoPrefix) + 2] \in DigitChars
    THEN SomeDate(Decimal(SubSeq(date_expr, Len(IsoPrefix) + 1, Len(IsoPrefix) + 2)))
  ELSE NoDate

\* re.search(r'(\d+)\s*days?', s): the number of the leftmost match, or no
\* match.
search_days(s) ==
  LET isDigit(i) == i \in 1..Len(s) /\ s[i] \in DigitChars
      runEnd(i) == CHOOSE j \in i..Len(s) :
                     /\ \A m \in i..j : isDigit(m)
                     /\ ~isDigit(j + 1)
      afterSpaces(j) == CHOOSE p \in (j + 1)..(Len(s) + 1) :
                          /\ \A m \in (j + 1)..(p - 1) : s[m] = " "
                          /\ (p = Len(s) + 1 \/ s[p] # " ")
      matches(i) == /\ isDigit(i)
                    /\ ~isDigit(i - 1)
                    /\ LET p == afterSpaces(runEnd(i))
                       IN p + 2 <= Len(s) /\ OccursAt(<<"d","a","y">>, s, p)
      starts == {i \in 1..Len(s) : matches(i)}
  IN IF starts = {} THEN [found |-> FALSE, days |-> 0]
     ELSE LET i == CHOOSE x \in starts : \A y \in starts : x <= y
          IN [found |-> TRUE, days |-> Decimal(SubSeq(s, i, runEnd(i)))]

\* Series.max() of a datetime column: the latest day, or NaT.
max_date(col) ==
  LET days == {col[i].n : i \in {j \in 1..Len(col) : col[j].k = "ts"}}
  IN IF days = {} THEN NoDate
     ELSE SomeDate(CHOOSE x \in days : \A y \in days : y <= x)

\* _parse_date_expression: the date, and the DataFrame, whose date column the
\* relative branch converts to datetime in place.
parse_date_expression(date_expr, df, date_column, now) ==
  LET absolute == to_datetime_scalar(date_expr, now)
      relative == df.nrows > 0 /\ date_column \in ColSet(df)
      df1 == IF relative THEN AsDatetime(df, date_column) ELSE df
      latest == IF relative THEN max_date(df1.data[date_column]) ELSE NoDate
      today == IF latest.ok THEN latest.day ELSE now
      lower == Lower(date_expr)
      found == search_days(lower)
  IN IF date_expr = <<>> THEN [date |-> NoDate, df |-> df]
     ELSE IF absolute.ok THEN [date |-> absolute, df |-> df]
     ELSE [df |-> df1,
           date |->
             IF Contains(lower, <<"l","a","s","t"," ","w","e","e","k">>) THEN SomeDate(today - 7)
             ELSE IF Contains(lower, <<"l","a","s","t"," ","m","o","n","t","h">>) THEN SomeDate(today - 30)
             ELSE IF Contains(lower, <<"l","a","s","t">>) /\ Contains(lower, <<"d","a","y","s">>)
               THEN IF found.found THEN SomeDate(today - found.days) ELSE NoDate
             ELSE IF Contains(lower, <<"y","e","s","t","e","r","d","a","y">>) THEN SomeDate(today - 1)
             ELSE IF Contains(lower, <<"t","o","d","a","y">>) THEN SomeDate(today)
             ELSE NoDate]

\* "'date' in col.lower() or 'time' in col.lower()"
IsDateNamed(col) ==
  Contains(Lower(col), <<"d","a","t","e">>) \/ Contains(Lower(col), <<"t","i","m","e">>)

\* A date_range of the filters: the keys it has, and their values; None and
\* the empty text are <<>>.
NoDateRange == [keys |-> {}, start |-> <<>>, end |-> <<>>]

\* The rows of df whose date is a day for which keep holds; NaT compares false.
SelectDates(df, date_column, keep(_)) ==
  With(AsDatetime(df, date_column),
       LAMBDA d : SelectRows(d, LAMBDA i : /\ d.data[date_column][i].k = "ts"
                                           /\ keep(d.data[date_column][i].n)))

\* _apply_date_filter as it would be if a row without a date passed both
\* comparisons.
apply_date_filter_keeps_nat(df, date_range, now) ==
  LET named == SelectSeq(df.columns, IsDateNamed)
      date_column == named[1]
      parsed(expr, d) ==
        IF expr # <<>>
          THEN parse_date_expression(expr, d, date_column, now)
          ELSE [date |-> NoDate, df |-> d]
      select(d, keep(_)) ==
        With(AsDatetime(d, date_column),
             LAMBDA a : SelectRows(a, LAMBDA i : \/ a.data[date_column][i].k # "ts"
                                                 \/ keep(a.data[date_column][i].n)))
      from(s, e) ==
        IF s.date.ok THEN select(e.df, LAMBDA day : day >= s.date.day) ELSE e.df
      to(e, d) ==
        IF e.date.ok THEN select(d, LAMBDA day : day <= e.date.day) ELSE d
  IN IF date_range.keys = {} THEN df
     ELSE IF named = <<>> THEN df
     ELSE With(parsed(date_range.start, df), LAMBDA s :
          With(parsed(date_range.end, s.df), LAMBDA e :
          With(from(s, e), LAMBDA d : to(e, d))))

\* _apply_date_filter
apply_date_filter(df, date_range, now) ==
  LET named == SelectSeq(df.columns, IsDateNamed)
      date_column == named[1]
      parsed(expr, d) ==
        IF expr # <<>>
          THEN parse_date_expression(expr, d, date_column, now)
          ELSE [date |-> NoDate, df |-> d]
      from(s, e) ==
        IF s.date.ok
          THEN SelectDates(e.df, date_column, LAMBDA day : day >= s.date.day)
          ELSE e.df
      to(e, d) ==
        IF e.date.ok
          THEN SelectDates(d, date_column, LAMBDA day : day <= e.date.day)
          ELSE d
  IN IF date_range.keys = {} THEN df
     ELSE IF named = <<>> THEN df
     ELSE With(parsed(date_range.start, df), LAMBDA s :
          With(parsed(date_range.end, s.df), LAMBDA e :
          With(from(s, e), LAMBDA d : to(e, d))))

\* str.rstrip('s')
RECURSIVE rstrip_s(_)
rstrip_s(s) ==
  IF Len(s) > 0 /\ s[Len(s)] = "s" THEN rstrip_s(SubSeq(s, 1, Len(s) - 1)) ELSE s

categorical_filters ==
  << <<"s","h","i","f","t","s">>, <<"l","i","n","e","s">>, <<"o","p","e","r","a","t","o","r","s">>, <<"c","a","t","e","g","o","r","i","e","s">>, <<"g","r","o","u","p","s">> >>

\* The loop over categorical_filters, from the n-th key on.  lists has the keys
\* the filters hold, each with its list of values.
RECURSIVE apply_categorical_filters(_, _, _)
apply_categorical_filters(df, lists, n) ==
  IF n > Len(categorical_filters) THEN df
  ELSE LET filter_key == categorical_filters[n]
           column_name == rstrip_s(filter_key)
           applies == /\ filter_key \in DOMAIN lists
                      /\ Len(lists[filter_key]) > 0
                      /\ column_name \in ColSet(df)
           filter_values == {lists[filter_key][i] : i \in 1..Len(lists[filter_key])}
           next == IF applies
                     THEN SelectRows(df, LAMBDA i : df.data[column_name][i] \in filter_values)
                     ELSE df
       IN With(next, LAMBDA d : apply_categorical_filters(d, lists, n + 1))

c_production == <<"p","r","o","d","u","c","t","i","o","n">>
c_efficiency == <<"e","f","f","i","c","i","e","n","c","y">>
c_defect_rate == <<"d","e","f","e","c","t","_","r","a","t","e">>
c_quality_score == <<"q","u","a","l","i","t","y","_","s","c","o","r","e">>
c_total_production == <<"t","o","t","a","l","_","p","r","o","d","u","c","t","i","o","n">>
c_production_per_hour == <<"p","r","o","d","u","c","t","i","o","n","_","p","e","r","_","h","o","u","r">>
c_avg_efficiency == <<"a","v","g","_","e","f","f","i","c","i","e","n","c","y">>

derived_names ==
  {c_defect_rate, c_quality_score, c_total_production, c_production_per_hour,
   c_avg_efficiency}

\* An arithmetic operator on the column raises TypeError: it holds texts or
\* timestamps.
NotArithmetic(df, col) ==
  \/ df.dtype[col] = "datetime64"
  \/ \E i \in 1..df.nrows : df.data[col][i].k \in {"str", "datestr", "ts"}

\* The loop "for col in numeric_cols" of _calculate_derived_metrics, from the
\* n-th column on.
RECURSIVE add_percentages(_, _, _)
add_percentages(df, numeric_cols, n) ==
  IF n > Len(numeric_cols) THEN df
  ELSE LET col == numeric_cols[n]
           numeric_series == [i \in 1..df.nrows |-> to_numeric_coerce(df.data[col][i])]
           next(total) ==
             IF col \notin derived_names /\ IsPositive(total)
               THEN SetColumn(df, col \o <<"_","p","e","r","c","e","n","t","a","g","e">>,
                              [i \in 1..df.nrows |->
                                 fillna0(FMul(FDiv(numeric_series[i], total), Num(100)))],
                              "float64")
               ELSE df
       IN With(SeriesSum(numeric_series), LAMBDA total :
          With(next(total), LAMBDA d : add_percentages(d, numeric_cols, n + 1)))

\* _calculate_derived_metrics: the DataFrame with the derived columns, or an
\* exception.
calculate_derived_metrics(df) ==
  LET numeric_cols == SelectSeq(df.columns, LAMBDA c : is_numeric_dtype(df.dtype[c]))
      rates == c_defects \in ColSet(df) /\ c_production \in ColSet(df)
      defect_rate == [i \in 1..df.nrows |->
                        fillna0(FMul(FDiv(df.data[c_defects][i], df.data[c_production][i]),
                                     Num(100)))]
      with_rates ==
        IF rates
          THEN With(SetColumn(df, c_defect_rate, defect_rate, "float64"),
                    LAMBDA d :
                      SetColumn(d, c_quality_score,
                                [i \in 1..d.nrows |->
                                   FSub(Num(100), d.data[c_defect_rate][i])],
                                "float64"))
          ELSE df
      with_production(d) ==
        IF c_production \in ColSet(d)
          THEN SetColumn(SetColumn(d, c_total_production,
                                   d.data[c_production], d.dtype[c_production]),
                         c_production_per_hour,
                         [i \in 1..d.nrows |-> FDiv(d.data[c_production][i], Num(8))],
                         "float64")
          ELSE d
      with_efficiency(d) ==
        IF c_efficiency \in ColSet(d)
          THEN SetColumn(d, c_avg_efficiency, d.data[c_efficiency], d.dtype[c_efficiency])
          ELSE d
      raises == \/ rates /\ (NotArithmetic(df, c_defects) \/ NotArithmetic(df, c_production))
                \/ c_production \in ColSet(df) /\ NotArithmetic(df, c_production)
  IN IF raises THEN [raised |-> TRUE, df |-> df]
     ELSE With(with_rates, LAMBDA d1 :
          With(with_production(d1), LAMBDA d2 :
          With(with_efficiency(d2), LAMBDA d3 :
            [raised |-> FALSE, df |-> add_percentages(d3, numeric_cols, 1)])))

\* A filters dict without filters.
NoFilters == [date_range |-> NoDateRange, lists |-> <<>>]

\* filter_manufacturing_data, its last part: the columns of the result.
select_columns(df, filtered_df, metrics) ==
  LET date_cols == SelectSeq(df.columns, IsDateNamed)
      categorical_cols ==
        SelectSeq(df.columns, LAMBDA c : df.dtype[c] = "object" /\ ~IsDateNamed(c))
      essential_cols == date_cols \o head(categorical_cols, 3)
      available_metrics == SelectSeq(metrics, LAMBDA m : m \in ColSet(filtered_df))
      selected == SelectSeq(essential_cols \o available_metrics,
                            LAMBDA c : c \in ColSet(filtered_df))
  IN With(selected,
          LAMBDA selected_columns :
            IF selected_columns = <<>> /\ Len(filtered_df.columns) > 0
              THEN SelectColumns(filtered_df, filtered_df.columns)
              ELSE SelectColumns(filtered_df, selected_columns))

\* filter_manufacturing_data
filter_manufacturing_data(df, filters, metrics, now) ==
  LET dated == IF filters.date_range.keys # {}
                 THEN apply_date_filter(df, filters.date_range, now)
                 ELSE df
  IN With(dated, LAMBDA d1 :
     With(apply_categorical_filters(d1, filters.lists, 1), LAMBDA d2 :
     With(calculate_derived_metrics(d2), LAMBDA derived :
       IF derived.raised THEN [raised |-> TRUE, df |-> NoDf]
       ELSE [raised |-> FALSE, df |-> select_columns(df, derived.df, metrics)])))

(* ----------------------------------------------------------------------- *)
(* data_processor.py: aggregate_data and prepare_chart_data; api.py:       *)
(* prepare_chartjs_data.                                                    *)
(* ----------------------------------------------------------------------- *)
c_day == <<"d","a","y">>
c_shift == <<"s","h","i","f","t">>
c_shift_no == <<"s","h","i","f","t","_","n","o">>
c_downtime == <<"d","o","w","n","t","i","m","e">>
(* ----------------------------------------------------------------------- *)
(* ----------------------------------------------------------------------- *)
c_week == <<"w","e","e","k">>
c_month == <<"m","o","n","t","h">>

\* A period of one month, numbered from January 2024, month 1.
Period(m) == [k |-> "period", n |-> m, d |-> 1]

\* Series.dt.isocalendar().week of a day: 2024-01-01 is a Monday, and
\* 1970-01-01 is in ISO week 1.
iso_week(cell) ==
  IF cell.k # "ts" THEN Null
  ELSE IF cell.n >= 1 THEN Num(((cell.n - 1) \div 7) + 1)
  ELSE Num(1)

\* Series.dt.to_period('M') of a day of January 2024 or of the epoch.
to_period_month(cell) ==
  IF cell.k # "ts" THEN Null
  ELSE IF cell.n >= 1 THEN Period(1)
  ELSE Period(1 - 54 * 12)

\* df.select_dtypes(include=[np.number])
is_number_dtype(dtype) == dtype \in {"int64", "float64", "UInt32"}

\* The first column whose lower-cased name contains one of the words, as a
\* list of at most one column.
FirstNamed(df, words) ==
  head(SelectSeq(df.columns, LAMBDA c : \E w \in words : Contains(Lower(c), w)), 1)

Groupings == {"daily", "weekly", "monthly", "shift", "line", "operator", "none"}

\* _get_grouping_columns as it would be if a grouping that finds no column
\* of its name grouped by the first column.
get_grouping_columns_first_column(grouping, df) ==
  [cols |-> IF grouping \in {"shift", "line", "operator"} THEN head(df.columns, 1) ELSE <<>>,
   df |-> df,
   raised |-> FALSE]

\* _get_grouping_columns: the columns to group by, the DataFrame it was given
\* as the call leaves it, and whether the call raised.  The .dt accessor
\* raises AttributeError on a column that is not datetime.
get_grouping_columns(grouping, df) ==
  LET dated == SelectSeq(df.columns, IsDateNamed)
      date_col == dated[1]
      calendar == grouping \in {"weekly", "monthly"} /\ dated # <<>>
  IN IF calendar /\ ~is_datetime64_any_dtype(df.dtype[date_col])
       THEN [cols |-> <<>>, df |-> df, raised |-> TRUE]
     ELSE IF calendar /\ grouping = "weekly"
       THEN [cols |-> <<c_week>>,
             df |-> SetColumn(df, c_week,
                              [i \in 1..df.nrows |-> iso_week(df.data[date_col][i])],
                              "UInt32"),
             raised |-> FALSE]
     ELSE IF calendar
       THEN [cols |-> <<c_month>>,
             df |-> SetColumn(df, c_month,
                              [i \in 1..df.nrows |-> to_period_month(df.data[date_col][i])],
                              "period"),
             raised |-> FALSE]
     ELSE [cols |-> CASE grouping = "daily" -> head(dated, 1)
                      [] grouping = "shift" -> FirstNamed(df, {<<"s","h","i","f","t">>})
                      [] grouping = "line" -> FirstNamed(df, {<<"l","i","n","e">>})
                      [] grouping = "operator" -> FirstNamed(df, {<<"o","p","e","r","a","t","o","r">>, <<"w","o","r","k","e","r">>})
                      [] OTHER -> <<>>,
           df |-> df,
           raised |-> FALSE]

\* The names of the reductions, in the order col_funcs lists them.
AggOrder == <<"sum", "mean", "max", "min", "count">>

\* The reductions the calculations ask for, "average" standing for "mean".
requested_funcs(calculations) ==
  SelectSeq(AggOrder,
            LAMBDA f : \E i \in 1..Len(calculations) :
                          calculations[i] = f \/ (f = "mean" /\ calculations[i] = "average"))

\* _get_aggregation_functions, for one numeric column.
col_funcs(calculations, col) ==
  IF requested_funcs(calculations) # <<>> THEN requested_funcs(calculations)
  ELSE IF col \in {c_production, c_defects, c_downtime} THEN <<"sum">>
  ELSE IF col \in {c_efficiency, c_defect_rate, c_quality_score} THEN <<"mean">>
  ELSE <<"sum">>

\* a < b for two cells of one kind
CellLess(a, b) ==
  IF a.k = "inf" THEN b.k = "inf" /\ a.n < b.n
  ELSE IF b.k = "inf" THEN b.n > 0
  ELSE a.n * b.d < b.n * a.d

\* The distinct non-null cells of a column in ascending order: the group keys
\* of groupby, which sorts them and drops null keys.
RECURSIVE SortCells(_)
SortCells(S) ==
  IF S = {} THEN <<>>
  ELSE LET least == CHOOSE x \in S : \A y \in S \ {x} : CellLess(x, y)
       IN <<least>> \o SortCells(S \ {least})

group_keys(col) == SortCells({col[i] : i \in 1..Len(col)} \ {Null})

\* The largest (sign 1) or smallest (sign -1) number of a list, null if it
\* holds none.
Extreme(cells, sign) ==
  LET numbers == {cells[i] : i \in {j \in 1..Len(cells) : IsNumber(cells[j])}}
  IN IF numbers = {} THEN Null
     ELSE CHOOSE x \in numbers :
            \A y \in numbers \ {x} :
              IF sign > 0 THEN CellLess(y, x) ELSE CellLess(x, y)

\* One reduction of groupby(...).agg on the cells of one group.
reduce(func, cells) ==
  LET count == Len(SelectSeq(cells, IsNumber))
  IN CASE func = "sum" -> SeriesSum(cells)
       [] func = "mean" -> IF count = 0 THEN Null ELSE FDiv(SeriesSum(cells), Num(count))
       [] func = "max" -> Extreme(cells, 1)
       [] func = "min" -> Extreme(cells, -1)
       [] func = "count" -> Num(count)

\* str.strip('_')
RECURSIVE strip_underscores(_)
strip_underscores(s) ==
  IF Len(s) > 0 /\ s[1] = "_" THEN strip_underscores(Tail(s))
  ELSE IF Len(s) > 0 /\ s[Len(s)] = "_"
    THEN strip_underscores(SubSeq(s, 1, Len(s) - 1))
  ELSE s

\* The text of a reduction's name.
FuncName(func) ==
  CASE func = "sum" -> <<"s","u","m">>
    [] func = "mean" -> <<"m","e","a","n">>
    [] func = "max" -> <<"m","a","x">>
    [] func = "min" -> <<"m","i","n">>
    [] func = "count" -> <<"c","o","u","n","t">>

\* The output columns of the aggregation from the n-th numeric column on:
\* each with its name, the column it reduces and the reduction.  A single
\* reduction per column leaves the column's name; several make two-level
\* names, flattened as '_'.join(col).strip('_').
RECURSIVE agg_columns(_, _, _)
agg_columns(numeric_cols, calculations, n) ==
  IF n > Len(numeric_cols) THEN <<>>
  ELSE LET col == numeric_cols[n]
           funcs == col_funcs(calculations, col)
           named == [i \in 1..Len(funcs) |->
                       [name |-> IF Len(funcs) = 1 THEN col
                                 ELSE strip_underscores(col \o <<"_">> \o FuncName(funcs[i])),
                        col |-> col,
                        func |-> funcs[i]]]
       IN named \o agg_columns(numeric_cols, calculations, n + 1)

\* The dtype of a reduced column.
ReducedDtype(func, dtype) ==
  IF func = "count" THEN "int64"
  ELSE IF func = "mean" THEN "float64"
  ELSE dtype

\* df.groupby(group_cols).agg(agg_funcs).reset_index() with the flattening
\* of the column names, or the exception it raises: with nothing to
\* aggregate, or when reset_index finds the group column among the reduced
\* columns under its own name.
grouped(df, group_col, calculations) ==
  LET numeric_cols == SelectSeq(df.columns, LAMBDA c : is_number_dtype(df.dtype[c]))
      out == agg_columns(numeric_cols, calculations, 1)
      names == {out[i].name : i \in 1..Len(out)}
      spec(c) == out[CHOOSE i \in 1..Len(out) : out[i].name = c]
      keys == group_keys(df.data[group_col])
      rows(key) == SelectSeq([i \in 1..df.nrows |-> i],
                             LAMBDA i : df.data[group_col][i] = key)
      cells(c, key) == [j \in 1..Len(rows(key)) |-> df.data[c][rows(key)[j]]]
  IN IF out = <<>> \/ group_col \in names
       THEN [raised |-> TRUE, df |-> df]
     ELSE [raised |-> FALSE,
           df |-> [columns |-> <<group_col>> \o [i \in 1..Len(out) |-> out[i].name],
                   dtype |-> [c \in names \cup {group_col} |->
                                IF c = group_col THEN df.dtype[group_col]
                                ELSE ReducedDtype(spec(c).func, df.dtype[spec(c).col])],
                   data |-> [c \in names \cup {group_col} |->
                               IF c = group_col THEN keys
                               ELSE [j \in 1..Len(keys) |->
                                       reduce(spec(c).func, cells(spec(c).col, keys[j]))]],
                   nrows |-> Len(keys)]]

\* DataFrame.empty as a test of the columns only.
IsEmpty_columns_only(df) == Len(df.columns) = 0

\* DataFrame.empty
IsEmpty(df) == df.nrows = 0 \/ Len(df.columns) = 0

\* The list of calculations api.query_data and prepare_chart_data use when
\* the instructions name none.
DefaultCalculations == <<"sum", "mean">>

\* aggregate_data: what it returns, the DataFrame it was given as the call
\* leaves it, and whether it raised.
aggregate_data(df, grouping, calculations) ==
  IF IsEmpty(df) THEN [df |-> df, input |-> df, raised |-> FALSE]
  ELSE With(get_grouping_columns(grouping, df),
            LAMBDA g :
              IF g.raised THEN [df |-> NoDf, input |-> g.df, raised |-> TRUE]
              ELSE IF g.cols = <<>> THEN [df |-> g.df, input |-> g.df, raised |-> FALSE]
              ELSE [df |-> grouped(g.df, g.cols[1], calculations).df,
                    input |-> g.df,
                    raised |-> FALSE])

c_category == <<"c","a","t","e","g","o","r","y">>
c_line == <<"l","i","n","e">>
c_operator == <<"o","p","e","r","a","t","o","r">>
c_index == <<"i","n","d","e","x">>

\* _get_x_axis_column
get_x_axis_column(grouping, df) ==
  LET named == CASE grouping = "daily" -> c_date
                 [] grouping = "weekly" -> c_week
                 [] grouping = "monthly" -> c_month
                 [] grouping = "shift" -> c_shift
                 [] grouping = "line" -> c_line
                 [] grouping = "operator" -> c_operator
                 [] OTHER -> <<>>
      non_numeric == SelectSeq(df.columns, LAMBDA c : ~is_number_dtype(df.dtype[c]))
  IN IF named \in ColSet(df) THEN named
     ELSE IF non_numeric # <<>> THEN non_numeric[1]
     ELSE IF Len(df.columns) > 0 THEN df.columns[1]
     ELSE c_index

\* The chart configuration of a call that returned none.
NoChartConfig == [x_axis |-> <<>>, y_axis |-> <<>>]

\* prepare_chart_data: the chart data and configuration, the DataFrame it
\* was given as the call leaves it, and whether it raised.
prepare_chart_data(df, grouping, metrics) ==
  With(aggregate_data(df, grouping, DefaultCalculations),
       LAMBDA a :
         IF a.raised
           THEN [chart_data |-> NoDf, chart_config |-> NoChartConfig, input |-> a.input, raised |-> TRUE]
         ELSE [chart_data |-> a.df,
               chart_config |-> [x_axis |-> get_x_axis_column(grouping, a.df),
                                 y_axis |-> metrics],
               input |-> a.input,
               raised |-> FALSE])

\* What prepare_chartjs_data returns in place of a chart.
NoChart == [returned |-> "None", data |-> <<>>]

\* "float(value) if pd.notna(value) else 0", with ValueError and TypeError
\* giving 0: a text that is no number, a timestamp and a period give 0,
\* a float gives itself.
chart_value(cell) == IF IsNumber(cell) THEN cell ELSE Num(0)

\* prepare_chartjs_data: None, or a dict whose data holds one point per row
\* of the chart data, with the cell its label is printed from and its value.
prepare_chartjs_data(chart_data, chart_config) ==
  LET present == SelectSeq(chart_config.y_axis, LAMBDA c : c \in ColSet(chart_data))
      numeric_cols == SelectSeq(chart_data.columns,
                                LAMBDA c : is_number_dtype(chart_data.dtype[c]))
      y_column == IF present # <<>> THEN present[1] ELSE numeric_cols[1]
      x_column == IF chart_config.x_axis \in ColSet(chart_data)
                    THEN chart_config.x_axis ELSE chart_data.columns[1]
  IN IF IsEmpty(chart_data) THEN NoChart
     ELSE IF present = <<>> /\ numeric_cols = <<>> THEN NoChart
     ELSE [returned |-> "dict",
           data |-> [i \in 1..chart_data.nrows |->
                       [label |-> chart_data.data[x_column][i],
                        value |-> chart_value(chart_data.data[y_column][i])]]]

(* ----------------------------------------------------------------------- *)
(* State.                                                                  *)
(* ----------------------------------------------------------------------- *)
VARIABLES
  query,                 \* the user's query text, a sequence of characters
  typed,                 \* number of fragments typed into the query so far
  pc,                    \* position of the request in its handler
  caller,                \* "api" (query_data) or "chatbot" (chatbot_response)
  llm_system,            \* api.py's global: "None" when construction failed
  filter_result,         \* the FilterResponse of filter_query for this request
  analysis_instructions, \* what query_llm_system returned
  calls,                 \* collaborators and stages invoked, in order
  response,              \* what the handler returned to its caller
  raw_df,                \* the DataFrame read from the uploaded file
  col_reply,             \* the model's answer to the column-analysis prompt
  dpc,                   \* position of the dataset: uploaded, classified, ...
  processed_df,          \* the DataFrame validate_universal_columns returned
  metadata,              \* the column metadata it returned
  second_mapping,        \* the mapping of a second rule-based classification
  filters,               \* the filters filter_manufacturing_data was given
  metrics,               \* the metrics it was given
  wall_clock,            \* the day of the wall clock during the call
  filtered_df,           \* the DataFrame it returned
  filter_raised,         \* whether it raised instead
  grouping,              \* the grouping of the instructions
  calculations,          \* the calculations of the instructions
  aggregated_data,       \* the DataFrame aggregate_data returned
  chart_data,            \* the DataFrame prepare_chart_data returned
  chart_config,          \* the chart configuration it returned
  chartjs_data,          \* what prepare_chartjs_data returned
  query_outcome,         \* what the query on the dataset has come to
  upload_pc,             \* position of upload_dataset in its code
  upload_file,           \* the file of the upload request being handled
  session_id,            \* the session id upload_dataset generated
  session_dirs,          \* the session ids whose directory exists
  sessions,              \* api.py's global map from session id to session
  data_summary,          \* what get_universal_data_summary returned
  upload_response        \* what upload_dataset answered to the request


(* ----------------------------------------------------------------------- *)
(* The query path: api.query_data and UniversalDataChatbot.chatbot_response *)
(* around ManufacturingLLMSystem.query_llm_system.                          *)
(* ----------------------------------------------------------------------- *)
\* Pieces a query is composed of.
\* "How to hack"
q_how_to_hack ==
  <<"H","o","w"," ","t","o"," ","h","a","c","k">>

\* "s"
q_s ==
  <<"s">>

\* " a password?"
q_a_password ==
  <<" ","a"," ","p","a","s","s","w","o","r","d","?">>

\* "What's the weather, "
q_weather ==
  <<"W","h","a","t","'","s"," ","t","h","e"," ","w","e","a","t","h","e","r",
    ","," ">>

\* "and also show defect trends?"
q_show_defect_trends ==
  <<"a","n","d"," ","a","l","s","o"," ","s","h","o","w"," ","d","e","f","e",
    "c","t"," ","t","r","e","n","d","s","?">>

\* "Tell me a joke"
q_joke ==
  <<"T","e","l","l"," ","m","e"," ","a"," ","j","o","k","e">>

\* "Country"
q_country ==
  <<"C","o","u","n","t","r","y">>

Fragments ==
  {q_how_to_hack, q_s, q_a_password, q_weather,
   q_show_defect_trends, q_joke, q_country}

MaxFragments == 2

NoFilterResult == [status |-> "none", message |-> "", is_allowed |-> FALSE, ran |-> {}]

NoInstructions == [analysis_type |-> "none", message |-> "", chart_type |-> "none"]

NoResponse == [kind |-> "none", text |-> "", success |-> FALSE]

\* What generate_content may do for one prompt: return text holding a JSON
\* object, return text without one, or raise.
LlmAnalysisTypes == {"trend_analysis", "ranking", "safety_filter"}

LlmChartTypes == {"line", "none"}

LlmReplies ==
  [kind : {"json"}, analysis_type : LlmAnalysisTypes, chart_type : LlmChartTypes]
    \cup {[kind |-> "text", analysis_type |-> "none", chart_type |-> "none"],
          [kind |-> "raises", analysis_type |-> "none", chart_type |-> "none"]}

\* _parse_llm_response / _extract_instructions_from_text
parse_llm_response(reply) ==
  IF reply.kind = "json"
    THEN [analysis_type |-> reply.analysis_type, message |-> "",
          chart_type |-> reply.chart_type]
    ELSE [analysis_type |-> "trend_analysis", message |-> "", chart_type |-> "line"]

\* _create_fallback_response
create_fallback_response ==
  [analysis_type |-> "trend_analysis", message |-> "", chart_type |-> "line"]

\* The instruction query_llm_system returns on a filter rejection.
safety_instruction(fr) ==
  [analysis_type |-> "safety_filter", message |-> fr.message, chart_type |-> "none"]

\* query_llm_system calling the model before it looks at the filter's verdict.
query_llm_system_generate_first(fr, reply) ==
  [instructions |-> IF ~fr.is_allowed THEN safety_instruction(fr)
                    ELSE IF reply.kind = "raises" THEN create_fallback_response
                    ELSE parse_llm_response(reply),
   calls |-> <<"generate_content">>]

\* ManufacturingLLMSystem.query_llm_system, given the FilterResponse fr that
\* its first statement obtains from filter_query(user_query) and the reply of
\* the model: (instruction, calls made)
query_llm_system(fr, reply) ==
  IF ~fr.is_allowed
    THEN [instructions |-> safety_instruction(fr), calls |-> <<>>]
    ELSE [instructions |-> IF reply.kind = "raises"
                             THEN create_fallback_response
                             ELSE parse_llm_response(reply),
          calls |-> <<"generate_content">>]

qvars == <<query, typed, pc, caller, filter_result, analysis_instructions, calls, response>>

fvars == <<filters, metrics, wall_clock, filtered_df, filter_raised>>

avars == <<grouping, calculations, aggregated_data, chart_data, chart_config, chartjs_data,
           query_outcome>>

dvars == <<raw_df, col_reply, dpc, processed_df, metadata, second_mapping, fvars, avars>>

uvars == <<upload_pc, upload_file, session_id, session_dirs, sessions, data_summary,
           upload_response>>

vars == <<qvars, llm_system, dvars, uvars>>

\* A user types the query, one fragment at a time.
ComposeQuery ==
  /\ pc = "compose"
  /\ typed < MaxFragments
  /\ \E f \in Fragments : query' = query \o f
  /\ typed' = typed + 1
  /\ UNCHANGED <<uvars, pc, caller, llm_system, filter_result, analysis_instructions,
                 calls, response, dvars>>

\* api.query_data up to the call of query_llm_system (session known).
ApiQueryDataBegin ==
  /\ pc = "compose"
  /\ caller' = "api"
  /\ IF llm_system = "None"
       THEN /\ response' = [kind |-> "error_response",
                            text |-> "LLM system not available", success |-> FALSE]
            /\ pc' = "done"
       ELSE /\ pc' = "query_llm"
            /\ UNCHANGED response
  /\ UNCHANGED <<uvars, query, typed, llm_system, filter_result, analysis_instructions, calls, dvars>>

\* UniversalDataChatbot.chatbot_response up to the call of query_llm_system;
\* the chatbot's constructor raises unless its LLM system was built.
ChatbotResponseBegin ==
  /\ pc = "compose"
  /\ llm_system = "present"
  /\ caller' = "chatbot"
  /\ pc' = "query_llm"
  /\ UNCHANGED <<uvars, query, typed, llm_system, filter_result, analysis_instructions,
                 calls, response, dvars>>

\* query_llm_system, first statement: the query goes through filter_query.
QueryLlmFilter ==
  /\ pc = "query_llm"
  /\ filter_result' = filter_query(query)
  /\ pc' = "filtered"
  /\ UNCHANGED <<uvars, query, typed, caller, llm_system, analysis_instructions, calls,
                 response, dvars>>

\* query_llm_system, the rest: the rejection instruction, or the call of the
\* model and the instruction made of its reply.
QueryLlmGenerate ==
  /\ pc = "filtered"
  /\ \E reply \in LlmReplies :
       LET r == query_llm_system(filter_result, reply) IN
       /\ analysis_instructions' = r.instructions
       /\ calls' = calls \o r.calls
  /\ pc' = "check_safety"
  /\ UNCHANGED <<uvars, query, typed, caller, llm_system, filter_result, response, dvars>>

\* query_llm_system on an allowed query whose call of the model does not
\* return: self.model.generate_content is called with no timeout and nothing
\* else runs in the request, so the handler stays in the call.
QueryLlmGenerateBlocks ==
  /\ pc = "filtered"
  /\ filter_result.is_allowed
  /\ calls' = Append(calls, "generate_content")
  /\ pc' = "generating"
  /\ UNCHANGED <<uvars, query, typed, caller, llm_system, filter_result, analysis_instructions,
                 response, dvars>>

\* "if analysis_instructions.get('analysis_type') == 'safety_filter'" in both
\* handlers.
CheckSafetyFilter ==
  /\ pc = "check_safety"
  /\ IF analysis_instructions.analysis_type = "safety_filter"
       THEN /\ response' =
                 [kind |-> "rejected",
                  text |-> IF analysis_instructions.message = ""
                             THEN "Query not allowed."
                             ELSE analysis_instructions.message,
                  success |-> FALSE]
            /\ pc' = "done"
       ELSE /\ pc' = "process"
            /\ UNCHANGED response
  /\ UNCHANGED <<uvars, query, typed, caller, llm_system, filter_result,
                 analysis_instructions, calls, dvars>>

\* api.query_data: the filter stage and the empty-result check.  The outcome of
\* the stage depends on the session's data, which this part leaves open.
ApiFilterStage ==
  /\ pc = "process"
  /\ caller = "api"
  /\ calls' = Append(calls, "filter_manufacturing_data")
  /\ \E outcome \in {"rows", "empty", "raises"} :
       CASE outcome = "rows" ->
              /\ pc' = "aggregate"
              /\ UNCHANGED response
         [] outcome = "empty" ->
              /\ pc' = "done"
              /\ response' = [kind |-> "no_data",
                              text |-> "No data found matching your criteria.",
                              success |-> FALSE]
         [] outcome = "raises" ->
              /\ pc' = "done"
              /\ response' = [kind |-> "error_response", text |-> "",
                              success |-> FALSE]
  /\ UNCHANGED <<uvars, query, typed, caller, llm_system, filter_result, analysis_instructions, dvars>>

\* api.query_data: aggregation, result compilation and insight generation.
ApiAggregateStage ==
  /\ pc = "aggregate"
  /\ calls' = calls \o <<"aggregate_data", "compile_universal_analysis_results",
                         "generate_insights">>
  /\ pc' = "chart"
  /\ UNCHANGED <<uvars, query, typed, caller, llm_system, filter_result,
                 analysis_instructions, response, dvars>>

\* api.query_data: chart preparation (skipped for chart_type none) and the reply.
ApiChartStage ==
  /\ pc = "chart"
  /\ IF analysis_instructions.chart_type \in {"line", "bar", "scatter", "pie", "heatmap"}
       THEN /\ calls' = calls \o <<"prepare_chart_data", "prepare_chartjs_data",
                                   "plot_manufacturing_data">>
            /\ \E ok \in BOOLEAN :
                 response' = [kind |-> IF ok THEN "ok" ELSE "chart_failed",
                              text |-> "insights", success |-> TRUE]
       ELSE /\ response' = [kind |-> "ok", text |-> "insights", success |-> TRUE]
            /\ UNCHANGED calls
  /\ pc' = "done"
  /\ UNCHANGED <<uvars, query, typed, caller, llm_system, filter_result, analysis_instructions, dvars>>

\* chatbot_response: process_query, chart generation and insights.
ChatbotProcess ==
  /\ pc = "process"
  /\ caller = "chatbot"
  /\ \E outcome \in {"data", "error", "raises"} :
       CASE outcome = "data" ->
              /\ calls' = calls \o <<"process_query", "plot_manufacturing_data",
                                     "generate_insights">>
              /\ response' = [kind |-> "ok", text |-> "insights", success |-> TRUE]
         [] outcome = "error" ->
              /\ calls' = Append(calls, "process_query")
              /\ response' = [kind |-> "analysis_error", text |-> "Analysis error",
                              success |-> FALSE]
         [] outcome = "raises" ->
              /\ calls' = Append(calls, "process_query")
              /\ response' = [kind |-> "error_response",
                              text |-> "Error processing query", success |-> FALSE]
  /\ pc' = "done"
  /\ UNCHANGED <<uvars, query, typed, caller, llm_system, filter_result, analysis_instructions, dvars>>

(* ----------------------------------------------------------------------- *)
(* Upload and classification of a dataset.                                 *)
(* ----------------------------------------------------------------------- *)
\* upload_dataset / UniversalDataChatbot._load_data: validate_universal_columns
\* on the DataFrame read from the file, with the process's LLM system.
ValidateUniversalColumns ==
  /\ dpc = "uploaded"
  /\ LET r == validate_universal_columns(raw_df, llm_system, col_reply) IN
       /\ processed_df' = r.df
       /\ metadata' = r.metadata
  /\ dpc' = "classified"
  /\ UNCHANGED <<uvars, qvars, llm_system, raw_df, col_reply, second_mapping, fvars, avars>>

\* detect_columns_by_rules run again, on the DataFrame validation returned.
Reclassify ==
  /\ dpc = "classified"
  /\ second_mapping' = detect_columns_by_rules(processed_df)
  /\ dpc' = "reclassified"
  /\ UNCHANGED <<uvars, qvars, llm_system, raw_df, col_reply, processed_df, metadata, fvars, avars>>

(* ----------------------------------------------------------------------- *)
(* The filter stage on a session's dataset.                                *)
(* ----------------------------------------------------------------------- *)

\* The columns of the datasets the filter stage is run on.
FilterCatalogue ==
  << [name |-> c_date, kind |-> "datestr"],
     [name |-> c_day, kind |-> "datestr"],
     [name |-> c_shift, kind |-> "text"],
     [name |-> c_production, kind |-> "num0"],
     [name |-> c_defects, kind |-> "num"],
     [name |-> c_downtime, kind |-> "num"],
     [name |-> c_category, kind |-> "text"] >>

MaxFilterCols == 3

MaxFilterRows == 3

FilterDatasets ==
  {MakeDataFrameFrom(FilterCatalogue, S, card, rows) :
     S \in {T \in SUBSET (1..Len(FilterCatalogue)) : Cardinality(T) \in 1..MaxFilterCols},
     card \in {1, 2}, rows \in 1..MaxFilterRows}

\* Bounds of a date range the instructions may carry: none, dates, relative
\* expressions, and a text that is neither.
StartExprs ==
  { <<>>, <<"2","0","2","4","-","0","1","-","0","2">>, <<"2","0","2","4","-","0","1","-","0","9">>, <<"l","a","s","t"," ","w","e","e","k">>, <<"l","a","s","t"," ","1"," ","d","a","y","s">>,
    <<"y","e","s","t","e","r","d","a","y">>, <<"n","e","x","t"," ","q","u","a","r","t","e","r">> }

EndExprs == { <<>>, <<"2","0","2","4","-","0","1","-","0","3">>, <<"t","o","d","a","y">> }

DateRanges ==
  {NoDateRange}
    \cup {[keys |-> {"start", "end"}, start |-> s, end |-> e] :
            s \in StartExprs, e \in EndExprs}

\* The list filters the instructions may carry.
ListFilters ==
  { <<>>,
    (<<"s","h","i","f","t","s">> :> <<>>),
    (<<"s","h","i","f","t","s">> :> <<Str(0)>>),
    (<<"c","a","t","e","g","o","r","i","e","s">> :> <<Str(0)>>) }

MetricLists == { <<>>, <<c_production>>, <<c_defect_rate, c_date>> }

\* Days the wall clock may show.
WallClocks == {2, 40}

\* processor.filter_manufacturing_data(df, filters, metrics) on the session's
\* DataFrame, with the filters and metrics of the analysis instructions.
FilterManufacturingData ==
  /\ dpc = "classified"
  /\ \E dr \in DateRanges, lists \in ListFilters, m \in MetricLists, now \in WallClocks :
       \E r \in {filter_manufacturing_data(processed_df,
                                            [date_range |-> dr, lists |-> lists], m, now)} :
          /\ filters' = [date_range |-> dr, lists |-> lists]
          /\ metrics' = m
          /\ wall_clock' = now
          /\ filtered_df' = r.df
          /\ filter_raised' = r.raised
  /\ dpc' = "filtered"
  /\ UNCHANGED <<uvars, qvars, llm_system, raw_df, col_reply, processed_df, metadata,
                 second_mapping, avars>>

(* ----------------------------------------------------------------------- *)
(* Queries against a session's dataset: the stages of api.query_data after *)
(* the instructions are known, and the chart fallback of                   *)
(* UniversalDataChatbot.chatbot_response.                                  *)
(* ----------------------------------------------------------------------- *)

\* The columns of the datasets the queries are run on.
PipelineCatalogue ==
  << [name |-> c_date, kind |-> "datestr"],
     [name |-> c_shift, kind |-> "text"],
     [name |-> c_production, kind |-> "num0"],
     [name |-> c_defects, kind |-> "num"],
     [name |-> c_operator, kind |-> "text"],
     [name |-> c_total_production, kind |-> "num"],
     [name |-> c_shift_no, kind |-> "code"] >>

MaxPipelineCols == 2

MaxPipelineRows == 2

PipelineDatasets ==
  {MakeDataFrameFrom(PipelineCatalogue, S, card, rows) :
     S \in {T \in SUBSET (1..Len(PipelineCatalogue)) : Cardinality(T) \in 1..MaxPipelineCols},
     card \in {1, 2}, rows \in 1..MaxPipelineRows}

\* What the model answered to the column-analysis prompt of the upload, where
\* there was a model: the JSON object {}, which names no column a date.
PipelineReplies == {[kind |-> "json", mapping |-> NoMapping]}

\* The filters the instructions of a query may carry.
PipelineFilters ==
  { NoFilters,
    [date_range |-> [keys |-> {"start", "end"}, start |-> <<"l","a","s","t"," ","w","e","e","k">>, end |-> <<"t","o","d","a","y">>],
     lists |-> <<>>],
    [date_range |-> NoDateRange, lists |-> (<<"s","h","i","f","t","s">> :> <<Str(0)>>)] }

\* The calculations the instructions may carry.
CalculationLists == { <<>>, <<"sum">>, <<"mean", "count">> }

\* What a query has come to: nothing yet, a failed response (an error of
\* the data processing, no data matching, an error of a later stage), or a
\* successful one (with the chart, or with the note that the chart failed).
Outcomes == {"none", "data_error", "no_data", "error", "chart_failed", "ok"}

\* query_data, the filter stage: processor.filter_manufacturing_data on the
\* session's DataFrame; an exception and an empty result end the request.
ApiFilterData ==
  /\ dpc = "classified"
  /\ \E f \in PipelineFilters, m \in MetricLists, now \in WallClocks :
       \E r \in {filter_manufacturing_data(processed_df, f, m, now)} :
          /\ filters' = f
          /\ metrics' = m
          /\ wall_clock' = now
          /\ filtered_df' = r.df
          /\ filter_raised' = r.raised
          /\ query_outcome' = IF r.raised THEN "data_error"
                        ELSE IF IsEmpty(r.df) THEN "no_data"
                        ELSE "none"
          /\ dpc' = IF r.raised \/ IsEmpty(r.df) THEN "responded" ELSE "filtered"
  /\ grouping' = "none"
  /\ calculations' = <<>>
  /\ aggregated_data' = NoDf
  /\ chart_data' = NoDf
  /\ chart_config' = NoChartConfig
  /\ chartjs_data' = NoChart
  /\ UNCHANGED <<uvars, qvars, llm_system, raw_df, col_reply, processed_df, metadata,
                 second_mapping>>

\* query_data, the aggregation stage: processor.aggregate_data on the
\* filtered data, which is the object the call may write to.
ApiAggregateData ==
  /\ dpc = "filtered"
  /\ \E g \in Groupings, c \in CalculationLists :
       \E a \in {aggregate_data(filtered_df, g, c)} :
          /\ grouping' = g
          /\ calculations' = c
          /\ filtered_df' = a.input
          /\ aggregated_data' = a.df
          /\ query_outcome' = IF a.raised THEN "error" ELSE "none"
          /\ dpc' = IF a.raised THEN "responded" ELSE "aggregated"
  /\ UNCHANGED <<uvars, qvars, llm_system, raw_df, col_reply, processed_df, metadata,
                 second_mapping, filters, metrics, wall_clock, filter_raised,
                 chart_data, chart_config, chartjs_data>>

\* query_data, the chart stage for instructions that ask for a chart:
\* processor.prepare_chart_data on the aggregated data.
ApiPrepareChartData ==
  /\ dpc = "aggregated"
  /\ \E p \in {prepare_chart_data(aggregated_data, grouping, metrics)} :
       /\ aggregated_data' = p.input
       /\ chart_data' = p.chart_data
       /\ chart_config' = p.chart_config
       /\ query_outcome' = IF p.raised THEN "chart_failed" ELSE "none"
       /\ dpc' = IF p.raised THEN "responded" ELSE "charted"
  /\ UNCHANGED <<uvars, qvars, llm_system, raw_df, col_reply, processed_df, metadata,
                 second_mapping, fvars, grouping, calculations, chartjs_data>>

\* query_data, the chart stage continued: prepare_chartjs_data, and the
\* response.
ApiPrepareChartjsData ==
  /\ dpc = "charted"
  /\ chartjs_data' = prepare_chartjs_data(chart_data, chart_config)
  /\ query_outcome' = "ok"
  /\ dpc' = "responded"
  /\ UNCHANGED <<uvars, qvars, llm_system, raw_df, col_reply, processed_df, metadata,
                 second_mapping, fvars, grouping, calculations, aggregated_data,
                 chart_data, chart_config>>

\* chatbot_response for instructions whose process_query result carries no
\* chart_data (every analysis type but ranking): prepare_chart_data on
\* self.data, which is the object the call may write to.
ChatbotPrepareChartData ==
  /\ dpc \in {"classified", "chatbot_responded"}
  /\ \E g \in Groupings, m \in MetricLists :
       \E p \in {prepare_chart_data(processed_df, g, m)} :
          /\ grouping' = g
          /\ metrics' = m
          /\ processed_df' = p.input
          /\ chart_data' = p.chart_data
          /\ chart_config' = p.chart_config
          /\ query_outcome' = IF p.raised THEN "error" ELSE "ok"
  /\ dpc' = "chatbot_responded"
  /\ UNCHANGED <<uvars, qvars, llm_system, raw_df, col_reply, metadata, second_mapping,
                 filters, wall_clock, filtered_df, filter_raised, calculations,
                 aggregated_data, chartjs_data>>

(* ----------------------------------------------------------------------- *)
(* Specifications.                                                         *)
(* ----------------------------------------------------------------------- *)
InitQuery ==
  /\ query = <<>>
  /\ typed = 0
  /\ pc = "compose"
  /\ caller = "none"
  /\ filter_result = NoFilterResult
  /\ analysis_instructions = NoInstructions
  /\ calls = <<>>
  /\ response = NoResponse

InitNoFilter ==
  /\ filters = NoFilters
  /\ metrics = <<>>
  /\ wall_clock = 0
  /\ filtered_df = NoDf
  /\ filter_raised = FALSE

InitNoAggregate ==
  /\ grouping = "none"
  /\ calculations = <<>>
  /\ aggregated_data = NoDf
  /\ chart_data = NoDf
  /\ chart_config = NoChartConfig
  /\ chartjs_data = NoChart
  /\ query_outcome = "none"

InitNoData ==
  /\ raw_df = NoDf
  /\ col_reply = NoReply
  /\ dpc = "none"
  /\ processed_df = NoDf
  /\ metadata = NoMetadata
  /\ second_mapping = NoMapping
  /\ InitNoFilter
  /\ InitNoAggregate

NoFile == [extension |-> "", content |-> "none", header |-> "text", table |-> NoDf]

NoSummary == [total_records |-> 0, available_columns |-> <<>>]

InitNoUpload ==
  /\ upload_pc = "idle"
  /\ upload_file = NoFile
  /\ session_id = 0
  /\ session_dirs = {}
  /\ sessions = <<>>
  /\ data_summary = NoSummary
  /\ upload_response = "none"

\* The query path, for a process whose LLM system was or was not built.
InitQ ==
  /\ InitQuery
  /\ InitNoUpload
  /\ llm_system \in {"None", "present"}
  /\ InitNoData

NextQ ==
  \/ ComposeQuery
  \/ ApiQueryDataBegin
  \/ ChatbotResponseBegin
  \/ QueryLlmFilter
  \/ QueryLlmGenerate
  \/ QueryLlmGenerateBlocks
  \/ CheckSafetyFilter
  \/ ApiFilterStage
  \/ ApiAggregateStage
  \/ ApiChartStage
  \/ ChatbotProcess

SpecQuery == InitQ /\ [][NextQ]_vars

\* The query path with every request running on: a handler that can take a
\* step takes one.
SpecQueryFair == InitQ /\ [][NextQ]_vars /\ WF_vars(NextQ)

\* Classification of an uploaded dataset.
InitC ==
  /\ InitQuery
  /\ InitNoUpload
  /\ llm_system \in {"None", "present"}
  /\ raw_df \in Datasets
  /\ col_reply \in IF llm_system = "None" THEN {NoReply} ELSE ColumnReplies(raw_df)
  /\ dpc = "uploaded"
  /\ processed_df = NoDf
  /\ metadata = NoMetadata
  /\ second_mapping = NoMapping
  /\ InitNoFilter
  /\ InitNoAggregate

NextC ==
  \/ ValidateUniversalColumns
  \/ Reclassify

SpecClassify == InitC /\ [][NextC]_vars

\* The filter stage on the dataset of a session, classified by the rules.
InitF ==
  /\ InitQuery
  /\ InitNoUpload
  /\ llm_system = "None"
  /\ raw_df \in FilterDatasets
  /\ col_reply = NoReply
  /\ dpc = "uploaded"
  /\ processed_df = NoDf
  /\ metadata = NoMetadata
  /\ second_mapping = NoMapping
  /\ InitNoFilter
  /\ InitNoAggregate

NextF ==
  \/ ValidateUniversalColumns
  \/ FilterManufacturingData

SpecFilter == InitF /\ [][NextF]_vars

\* Queries on the dataset of a session or of a chatbot, classified by the
\* rules or by the model.
InitP ==
  /\ InitQuery
  /\ InitNoUpload
  /\ llm_system \in {"None", "present"}
  /\ raw_df \in PipelineDatasets
  /\ col_reply \in IF llm_system = "None" THEN {NoReply} ELSE PipelineReplies
  /\ dpc = "uploaded"
  /\ processed_df = NoDf
  /\ metadata = NoMetadata
  /\ second_mapping = NoMapping
  /\ InitNoFilter
  /\ InitNoAggregate

NextP ==
  \/ ValidateUniversalColumns
  \/ ApiFilterData
  \/ ApiAggregateData
  \/ ApiPrepareChartData
  \/ ApiPrepareChartjsData
  \/ ChatbotPrepareChartData

SpecPipeline == InitP /\ [][NextP]_vars

(* ----------------------------------------------------------------------- *)
(* The query safety filter and its short circuit (SpecQuery).              *)
(* ----------------------------------------------------------------------- *)
\* The request has just passed filter_query.
Filtered == pc = "filtered"

\* C1: a query in which an unsafe-topic pattern matches is BLOCKED_UNSAFE with
\* the fixed refusal message, whatever else occurs in it; only the unsafe
\* check ran, so no later check had a say.
C1_UnsafeAlwaysBlocked ==
  (Filtered /\ unsafe_regex(query)) =>
    /\ filter_result.status = BLOCKED_UNSAFE
    /\ filter_result.message = UnsafeMessage
    /\ filter_result.ran = {"unsafe"}

\* C1 witness: an unsafe query that also names an irrelevant topic, filtered.
C1_Witness ==
  /\ Filtered
  /\ query = q_weather \o q_a_password
  /\ irrelevant_regex(query)
  /\ filter_result.status = BLOCKED_UNSAFE

\* C2: a query with no unsafe match and an irrelevant-topic match is
\* BLOCKED_IRRELEVANT even with domain keywords and analysis verbs in it, and
\* neither the keyword scoring nor the generic-shape check ran.
C2_IrrelevantBeatsKeywords ==
  (Filtered /\ ~unsafe_regex(query) /\ irrelevant_regex(query)) =>
    /\ filter_result.status = BLOCKED_IRRELEVANT
    /\ filter_result.message = IrrelevantMessage
    /\ filter_result.ran \cap {"score", "generic"} = {}

\* C2 witness: "What's the weather, and also show defect trends?", which has
\* domain keywords and analysis verbs, filtered and rejected.
C2_Witness ==
  /\ Filtered
  /\ query = q_weather \o q_show_defect_trends
  /\ manufacturing_score(Lower(query)) >= 1
  /\ analysis_score(Lower(query)) >= 1
  /\ filter_result.status = BLOCKED_IRRELEVANT

\* C3: the filter answers ALLOWED exactly when no unsafe and no irrelevant
\* pattern matches and a domain keyword, an analysis verb or a generic
\* phrasing occurs; any other query without an unsafe match is
\* BLOCKED_IRRELEVANT; is_allowed is true exactly for ALLOWED.
C3_AllowedIff ==
  Filtered =>
    LET query_lower == Lower(query)
        relevant == \/ manufacturing_score(query_lower) >= 1
                    \/ analysis_score(query_lower) >= 1
                    \/ generic_data_patterns(query_lower)
    IN /\ (filter_result.status = ALLOWED) <=>
            (~unsafe_regex(query) /\ ~irrelevant_regex(query) /\ relevant)
       /\ (filter_result.status # ALLOWED /\ ~unsafe_regex(query)) =>
            filter_result.status = BLOCKED_IRRELEVANT
       /\ filter_result.is_allowed <=> (filter_result.status = ALLOWED)

\* C3 witness: "Countrys", allowed on the strength of an analysis verb alone
\* ("count" occurs in it) with no domain keyword.
C3_Witness ==
  /\ Filtered
  /\ query = q_country \o q_s
  /\ manufacturing_score(Lower(query)) = 0
  /\ analysis_score(Lower(query)) >= 1
  /\ filter_result.status = ALLOWED

\* C4: once the filter has rejected the query, the instruction is the
\* safety_filter one carrying the filter's message, the model is never called,
\* no stage is run, and the handler's answer is that message.
C4_RejectionShortCircuits ==
  (filter_result.status \in QueryFilterResult \ {ALLOWED}) =>
    /\ calls = <<>>
    /\ pc \in {"filtered", "check_safety", "done"}
    /\ pc \in {"check_safety", "done"} =>
         /\ analysis_instructions.analysis_type = "safety_filter"
         /\ analysis_instructions.message = filter_result.message
    /\ pc = "done" =>
         /\ response.kind = "rejected"
         /\ response.text = filter_result.message

\* C4 witness: query_data has answered a rejected query.
C4_Witness ==
  /\ pc = "done"
  /\ caller = "api"
  /\ filter_result.status = BLOCKED_UNSAFE
  /\ response.text = UnsafeMessage

(* ----------------------------------------------------------------------- *)
(* The text-generation collaborator failing (SpecQuery, SpecQueryFair).    *)
(* ----------------------------------------------------------------------- *)
\* C14: a query the filter allows obtains an analysis instruction whether
\* the collaborator is absent, raises or answers without JSON, and its
\* caller is not answered with the collaborator's failure.
C14_CollaboratorFailureRecovered ==
  (pc = "done" /\ filter_query(query).is_allowed) =>
    /\ analysis_instructions # NoInstructions
    /\ ~(response.kind = "error_response" /\ response.text = "LLM system not available")

\* C15: the request of an allowed query always comes to its response, also
\* when the call of the model never returns.
C15_AllowedQueryCompletes ==
  (pc = "filtered" /\ filter_result.is_allowed) ~> (pc = "done")

(* ----------------------------------------------------------------------- *)
(* The semantic column classifier (SpecClassify).                          *)
(* ----------------------------------------------------------------------- *)
\* validate_universal_columns has returned.
Classified == dpc \in {"classified", "reclassified"}

\* The mapping came from detect_columns_by_rules, not from the model's reply.
RuleBased == llm_system = "None" \/ col_reply.kind # "json"

MappingOf(c) == metadata.column_mapping.type[c]

SeqSet(list) == {list[i] : i \in 1..Len(list)}

\* C5: the column mapping has exactly one entry for every column of the
\* dataset, each one of the eight categories, and no column is in two of the
\* category lists of the metadata.
C5_EveryColumnOneCategory ==
  Classified =>
    LET keys == metadata.column_mapping.keys
        lists == <<metadata.date_columns, metadata.numeric_measures,
                   metadata.quality_measures, metadata.efficiency_measures,
                   metadata.categorical_columns, metadata.time_measures>>
    IN /\ SeqSet(keys) = ColSet(raw_df)
       /\ Len(keys) = Len(raw_df.columns)
       /\ \A c \in SeqSet(keys) : MappingOf(c) \in Categories
       /\ \A i, j \in 1..Len(lists) :
            i # j => SeqSet(lists[i]) \cap SeqSet(lists[j]) = {}

\* The category the documented priority order gives a numeric column:
\* quality, then efficiency, then time-duration, then generic quantity.
documented_numeric_category(col_lower) ==
  IF AnyKeyword(quality_keywords, col_lower) THEN "quality_measure"
  ELSE IF AnyKeyword(efficiency_keywords, col_lower) THEN "efficiency_measure"
  ELSE IF AnyKeyword(time_keywords, col_lower) THEN "time_measure"
  ELSE "numeric_measure"

\* C6: a numeric column is classified by the keyword families in the order
\* quality, efficiency, time-duration, generic quantity, default; so
\* "defect_count" is a quality_measure.
C6_QualityBeforeQuantity ==
  (Classified /\ RuleBased) =>
    \A c \in ColSet(raw_df) :
      (is_numeric_dtype(raw_df.dtype[c]) /\ ~AnyKeyword(date_keywords, Lower(c))) =>
        MappingOf(c) = documented_numeric_category(Lower(c))

\* C7: the numeric column "downtime_minutes" is classified time_measure and
\* still holds numbers after validate_universal_columns.
C7_DowntimeIsTimeMeasure ==
  (Classified /\ RuleBased /\ c_downtime_minutes \in ColSet(raw_df)) =>
    /\ MappingOf(c_downtime_minutes) = "time_measure"
    /\ \A i \in 1..processed_df.nrows :
         processed_df.data[c_downtime_minutes][i].k = "num"

\* The text columns of the uploaded dataset that are not taken for dates.
TextColumns ==
  {c \in ColSet(raw_df) : /\ raw_df.dtype[c] = "object"
                          /\ ~AnyKeyword(date_keywords, Lower(c))
                          /\ ~parses_as_date(raw_df.data[c])}

\* C8 as stated: a text column with at most 20 distinct values is categorical
\* for every row count.
C8_AtMostTwentyIsCategorical ==
  (Classified /\ RuleBased) =>
    \A c \in TextColumns :
      nunique(raw_df.data[c]) <= 20 => MappingOf(c) = "categorical"

\* C8 amended: a text column with fewer than 20 distinct values is categorical
\* for every row count; one with 20 or more distinct values that are at least
\* a tenth of the row count is an identifier.
C8_BelowTwentyIsCategorical ==
  (Classified /\ RuleBased) =>
    \A c \in TextColumns :
      LET distinct == nunique(raw_df.data[c]) IN
      /\ distinct < 20 => MappingOf(c) = "categorical"
      /\ (distinct >= 20 /\ 10 * distinct >= raw_df.nrows) =>
           MappingOf(c) = "identifier"

\* C8 witness: "region" with 19 distinct values in 20 rows, where the count
\* and not the ratio makes it categorical.
C8_Witness ==
  /\ Classified
  /\ RuleBased
  /\ c_region \in TextColumns
  /\ raw_df.nrows = 20
  /\ nunique(raw_df.data[c_region]) = 19
  /\ MappingOf(c_region) = "categorical"

\* C9: rule-based classification of the DataFrame validation returned gives
\* the mapping of the first run.
C9_ClassificationIdempotent ==
  (dpc = "reclassified" /\ RuleBased) => second_mapping = metadata.column_mapping

\* The model was absent, its call raised, or its text held no JSON that parses.
CollaboratorFailed ==
  llm_system = "None" \/ col_reply.kind \in {"raises", "no_json", "bad_json"}

FilterDone == dpc = "filtered"

\* The start bound of the date range is a date, and every row of the dataset
\* has an earlier date in the first column classified as a date.
StartAfterEveryDate ==
  /\ metadata.date_columns # <<>>
  /\ filters.date_range.keys # {}
  /\ LET start == to_datetime_scalar(filters.date_range.start, wall_clock)
         dates == processed_df.data[metadata.date_columns[1]]
     IN /\ start.ok
        /\ \A i \in 1..processed_df.nrows :
             dates[i].k = "ts" /\ dates[i].n < start.day

\* C10: with a start bound later than the date of every row of a dataset
\* that has a date column, filter_manufacturing_data returns zero rows and
\* does not raise.
C10_StartAfterEveryDateIsEmpty ==
  (FilterDone /\ StartAfterEveryDate) =>
    /\ ~filter_raised
    /\ filtered_df.nrows = 0

\* C12: every derived defect_rate is a finite number that is not negative,
\* and it is 0 in every row whose production is 0, whatever the defects.
C12_DefectRateFinite ==
  (FilterDone /\ ~filter_raised /\ c_defect_rate \in ColSet(filtered_df)) =>
    \A i \in 1..filtered_df.nrows :
      LET rate == filtered_df.data[c_defect_rate][i]
      IN /\ rate.k = "num"
         /\ rate.n >= 0
         /\ (c_production \in ColSet(filtered_df)
               /\ filtered_df.data[c_production][i] = Num(0)) => rate = Num(0)

\* The days a relative bound lies before the day it is resolved against.
RelativeDays ==
  (<<"l","a","s","t"," ","w","e","e","k">> :> 7) @@ (<<"l","a","s","t"," ","1"," ","d","a","y","s">> :> 1) @@ (<<"y","e","s","t","e","r","d","a","y">> :> 1) @@ (<<"t","o","d","a","y">> :> 0)

\* The date column the date filter works on, as a list: its first column
\* with a date name, if any.
FilterDateColumn == head(SelectSeq(processed_df.columns, IsDateNamed), 1)

\* C19: a relative bound of the date range (last week, last N days,
\* yesterday, today) is resolved against the latest date of the dataset's
\* date column as it is before filtering, not against the wall clock.
C19_RelativeBoundsUseMaxDate ==
  (FilterDone /\ filters.date_range.keys # {} /\ FilterDateColumn # <<>>) =>
    LET latest == max_date(AsDatetime(processed_df, FilterDateColumn[1]).data[FilterDateColumn[1]])
    IN \A bound \in {filters.date_range.start, filters.date_range.end} :
         (bound \in DOMAIN RelativeDays /\ latest.ok) =>
           parse_date_expression(bound, processed_df, FilterDateColumn[1], wall_clock).date
             = SomeDate(latest.day - RelativeDays[bound])

\* The column each filter family names: the singular of its key.
singular_column ==
  (<<"s","h","i","f","t","s">> :> <<"s","h","i","f","t">>) @@ (<<"l","i","n","e","s">> :> <<"l","i","n","e">>) @@ (<<"o","p","e","r","a","t","o","r","s">> :> <<"o","p","e","r","a","t","o","r">>)
    @@ (<<"c","a","t","e","g","o","r","i","e","s">> :> <<"c","a","t","e","g","o","r","y">>) @@ (<<"g","r","o","u","p","s">> :> <<"g","r","o","u","p">>)

\* Row i of the stored dataset passes every list filter that has a non-empty
\* allow-list and whose column the dataset has.
PassesListFilters(i) ==
  \A key \in DOMAIN filters.lists :
    (Len(filters.lists[key]) > 0 /\ singular_column[key] \in ColSet(processed_df))
      => processed_df.data[singular_column[key]][i] \in SeqSet(filters.lists[key])

\* C20: with no date range, the rows filter_manufacturing_data returns are
\* the rows of the dataset whose values are in every non-empty allow-list of
\* a filter family (shifts, lines, operators, categories, groups) whose
\* singular column the dataset has, in their order; an empty allow-list and
\* a missing column drop nothing.
C20_AllowListsDropExactly ==
  (FilterDone /\ ~filter_raised /\ filters.date_range.keys = {}) =>
    LET kept == SelectSeq([i \in 1..processed_df.nrows |-> i], PassesListFilters)
    IN /\ filtered_df.nrows = Len(kept)
       /\ \A c \in ColSet(filtered_df) \cap ColSet(processed_df) :
            filtered_df.data[c] = [j \in 1..Len(kept) |-> processed_df.data[c][kept[j]]]

\* A bound of the date range resolves to a date: the dataset has a date
\* column, the range is given and _parse_date_expression returns a date for
\* the expression.
BoundResolves(expr) ==
  /\ FilterDateColumn # <<>>
  /\ filters.date_range.keys # {}
  /\ expr # <<>>
  /\ parse_date_expression(expr, processed_df, FilterDateColumn[1], wall_clock).date.ok

\* C29: when the start or the end bound resolves to a date and a date column
\* exists, no row without a date is in the output; when no bound resolves,
\* every row is retained, the rows without a date included.
C29_NullDatesDroppedOnlyWithBound ==
  (FilterDone /\ ~filter_raised /\ \A key \in DOMAIN filters.lists : filters.lists[key] = <<>>) =>
    IF BoundResolves(filters.date_range.start) \/ BoundResolves(filters.date_range.end)
      THEN /\ FilterDateColumn[1] \in ColSet(filtered_df)
           /\ \A i \in 1..filtered_df.nrows :
                filtered_df.data[FilterDateColumn[1]][i].k = "ts"
      ELSE /\ filtered_df.nrows = processed_df.nrows
           /\ \A c \in ColSet(filtered_df) \cap ColSet(processed_df) :
                \A i \in 1..processed_df.nrows :
                  processed_df.data[c][i].k = "null" => filtered_df.data[c][i].k = "null"

C29_Witness ==
  /\ FilterDone
  /\ ~filter_raised
  /\ filters.lists = <<>>
  /\ BoundResolves(filters.date_range.start)
  /\ \E i \in 1..processed_df.nrows : processed_df.data[FilterDateColumn[1]][i].k = "null"
  /\ filtered_df.nrows > 0
  /\ filtered_df.nrows < processed_df.nrows

(* ----------------------------------------------------------------------- *)
(* Aggregation, charts and the stored dataset (SpecPipeline).              *)
(* ----------------------------------------------------------------------- *)
\* The grouping asks for a shift, line or operator column and the non-empty
\* DataFrame has no column it would group by.
UnresolvedGrouping(g, df) ==
  /\ ~IsEmpty(df)
  /\ \/ g = "shift" /\ FirstNamed(df, {<<"s","h","i","f","t">>}) = <<>>
     \/ g = "line" /\ FirstNamed(df, {<<"l","i","n","e">>}) = <<>>
     \/ g = "operator" /\ FirstNamed(df, {<<"o","p","e","r","a","t","o","r">>, <<"w","o","r","k","e","r">>}) = <<>>

C13_ChartValuesFinite ==
  (dpc = "responded" /\ query_outcome = "ok" /\ chartjs_data # NoChart) =>
    \A i \in 1..Len(chartjs_data.data) :
      /\ chartjs_data.data[i].value.k = "num"
      /\ ~IsNumber(chart_data.data[
             IF SelectSeq(chart_config.y_axis, LAMBDA c : c \in ColSet(chart_data)) # <<>>
               THEN SelectSeq(chart_config.y_axis, LAMBDA c : c \in ColSet(chart_data))[1]
               ELSE SelectSeq(chart_data.columns,
                              LAMBDA c : is_number_dtype(chart_data.dtype[c]))[1]][i])
           => chartjs_data.data[i].value = Num(0)

\* The dataset and the column metadata as the upload stored them.
StoredAtUpload == validate_universal_columns(raw_df, llm_system, col_reply)

\* C16: whatever queries have run since the upload, the stored dataset (the
\* session's data, the chatbot's self.data) and the column metadata are as
\* the upload stored them.
C16_StoredDatasetNeverModified ==
  dpc \notin {"none", "uploaded"} =>
    /\ processed_df = StoredAtUpload.df
    /\ metadata = StoredAtUpload.metadata

\* C17: no stage writes to the dataset it is given: the filter stage and
\* the chart preparation of the chatbot leave the stored dataset as it was,
\* aggregate_data leaves the filtered data and prepare_chart_data the
\* aggregated data as they were, for every grouping.
C17_StagesLeaveTheirInput ==
  [][/\ dpc # "uploaded" => processed_df' = processed_df
     /\ dpc = "filtered" => filtered_df' = filtered_df
     /\ dpc = "aggregated" => aggregated_data' = aggregated_data]_vars

\* The columns the projection of filter_manufacturing_data always selects:
\* the date-named columns of the dataset and the first three of its other
\* object columns.
EssentialColumns ==
  SeqSet(SelectSeq(processed_df.columns, IsDateNamed))
    \cup SeqSet(head(SelectSeq(processed_df.columns,
                               LAMBDA c : processed_df.dtype[c] = "object" /\ ~IsDateNamed(c)),
                     3))

\* filter_manufacturing_data has returned in the filter stage of query_data,
\* with rows or without.
ApiFiltered == dpc = "filtered" \/ (dpc = "responded" /\ query_outcome = "no_data")

\* C21: the output of filter_manufacturing_data keeps the date
\* columns, the first three categorical columns and the metrics the dataset
\* has; whenever no metric of the instructions is in the dataset it has the
\* full column set, and it never has zero columns.
C21_NoMetricGivesFullColumnSet ==
  ApiFiltered =>
    /\ Len(filtered_df.columns) > 0
    /\ EssentialColumns \subseteq ColSet(filtered_df)
    /\ SeqSet(metrics) \cap ColSet(processed_df) \subseteq ColSet(filtered_df)
    /\ SeqSet(metrics) \cap ColSet(filtered_df) = {}
         => ColSet(processed_df) \subseteq ColSet(filtered_df)

\* C22: _calculate_derived_metrics only adds columns.  Seen where
\* filter_manufacturing_data ran it with no filter to drop rows: the row
\* count is the dataset's, and every column of the dataset that is in the
\* output holds the values it held, the columns named like a derived metric
\* among them.
C22_DerivedMetricsOnlyAdd ==
  (ApiFiltered /\ filters = NoFilters) =>
    /\ filtered_df.nrows = processed_df.nrows
    /\ \A c \in ColSet(processed_df) \cap ColSet(filtered_df) :
         filtered_df.data[c] = processed_df.data[c]

\* The DataFrame has no column with a date or time name, or the first such
\* column is not of a datetime type.
NoUsableDateColumn(df) ==
  \/ SelectSeq(df.columns, IsDateNamed) = <<>>
  \/ ~is_datetime64_any_dtype(df.dtype[SelectSeq(df.columns, IsDateNamed)[1]])

\* C23: aggregate_data with grouping daily, weekly or monthly on a non-empty
\* dataset without a usable date column raises nothing and returns the
\* dataset it was given, unchanged.
C23_NoDateColumnSkipsAggregation ==
  [][(/\ dpc = "filtered"
      /\ grouping' \in {"daily", "weekly", "monthly"}
      /\ NoUsableDateColumn(filtered_df))
       => /\ dpc' = "aggregated"
          /\ query_outcome' = "none"
          /\ aggregated_data' = filtered_df
          /\ filtered_df' = filtered_df]_vars

\* aggregate_data has returned for a grouping that resolved to a column of
\* the non-empty data it was given.
ResolvedGrouping ==
  /\ dpc = "aggregated"
  /\ ~IsEmpty(filtered_df)
  /\ get_grouping_columns(grouping, filtered_df).cols # <<>>

\* The column the aggregation grouped by.
GroupColumn == get_grouping_columns(grouping, filtered_df).cols[1]

\* The numeric columns of the data that was aggregated, the group column
\* aside.
ReducedColumns ==
  {c \in ColSet(filtered_df) : is_number_dtype(filtered_df.dtype[c])} \ {GroupColumn}

\* C24: with a resolved grouping and requested operations, the output of
\* aggregate_data has exactly one column named <c>_<op> for every numeric
\* column c and every requested operation op, also when one operation is
\* requested.
C24_OneColumnPerOperation ==
  (ResolvedGrouping /\ calculations # <<>>) =>
    \A c \in ReducedColumns, op \in SeqSet(calculations) :
      Cardinality({i \in 1..Len(aggregated_data.columns) :
                     aggregated_data.columns[i] = c \o <<"_">> \o FuncName(op)}) = 1

\* The distinct values of the grouping key in the data that was aggregated;
\* a missing key is not a value.
GroupKeyValues ==
  {filtered_df.data[GroupColumn][r] : r \in 1..filtered_df.nrows} \
    {x \in {filtered_df.data[GroupColumn][r] : r \in 1..filtered_df.nrows} : x.k = "null"}

\* C25: when the grouping resolves to a column of a non-empty dataset, the
\* result of aggregate_data has exactly one row per distinct value of the
\* grouping key, whatever the type of the grouping column.
C25_OneRowPerGroupValue ==
  ResolvedGrouping =>
    /\ aggregated_data.nrows = Cardinality(GroupKeyValues)
    /\ GroupColumn \in ColSet(aggregated_data)
    /\ \A v \in GroupKeyValues :
         Cardinality({r \in 1..aggregated_data.nrows :
                        aggregated_data.data[GroupColumn][r] = v}) = 1

(* ----------------------------------------------------------------------- *)
(* aggregate_data on data with rate-like columns: the data is what a query *)
(* has filtered, the grouping and the calculations are any.                *)
(* ----------------------------------------------------------------------- *)

\* The columns of the data aggregate_data is given.
AggregateCatalogue ==
  << [name |-> c_shift, kind |-> "text"],
     [name |-> c_production, kind |-> "num0"],
     [name |-> c_efficiency_pct, kind |-> "num"],
     [name |-> c_quality_score, kind |-> "num"],
     [name |-> c_shift_no, kind |-> "code"] >>

MaxAggregateCols == 3

MaxAggregateRows == 2

AggregateDatasets ==
  {MakeDataFrameFrom(AggregateCatalogue, S, card, rows) :
     S \in {T \in SUBSET (1..Len(AggregateCatalogue)) : Cardinality(T) \in 1..MaxAggregateCols},
     card \in {1, 2}, rows \in 1..MaxAggregateRows}

\* The calculations of the instructions: none, a word that names no
\* reduction, one reduction, two.
AggregateCalculations == { <<>>, <<"total">>, <<"sum">>, <<"mean", "count">> }

\* aggregated_data = data_processor.aggregate_data(filtered_data, grouping,
\* calculations)
AggregateData ==
  /\ dpc = "filtered"
  /\ \E g \in Groupings, c \in AggregateCalculations :
       \E a \in {aggregate_data(filtered_df, g, c)} :
          /\ grouping' = g
          /\ calculations' = c
          /\ filtered_df' = a.input
          /\ aggregated_data' = a.df
          /\ query_outcome' = IF a.raised THEN "error" ELSE "none"
          /\ dpc' = IF a.raised THEN "responded" ELSE "aggregated"
  /\ UNCHANGED <<uvars, qvars, llm_system, raw_df, col_reply, processed_df, metadata,
                 second_mapping, filters, metrics, wall_clock, filter_raised,
                 chart_data, chart_config, chartjs_data>>

InitA ==
  /\ InitQuery
  /\ InitNoUpload
  /\ llm_system = "present"
  /\ raw_df = NoDf
  /\ col_reply = NoReply
  /\ dpc = "filtered"
  /\ processed_df = NoDf
  /\ metadata = NoMetadata
  /\ second_mapping = NoMapping
  /\ filters = NoFilters
  /\ metrics = <<>>
  /\ wall_clock = 0
  /\ filtered_df \in AggregateDatasets
  /\ filter_raised = FALSE
  /\ InitNoAggregate

NextA == AggregateData

SpecAggregate == InitA /\ [][NextA]_vars

(* ----------------------------------------------------------------------- *)
(* Claims checked under SpecAggregate                                      *)
(* ----------------------------------------------------------------------- *)

\* The reduction the default is described to give a numeric column: mean for
\* a rate-like name, sum for a count-like name and for every other.
DescribedDefault(col) ==
  IF \E w \in {<<"p","r","o","d","u","c","t","i","o","n">>, <<"d","e","f","e","c","t","s">>,
               <<"d","o","w","n","t","i","m","e">>} : Contains(Lower(col), w)
    THEN "sum"
  ELSE IF \E w \in {<<"e","f","f","i","c","i","e","n","c","y">>, <<"r","a","t","e">>,
                    <<"s","c","o","r","e">>} : Contains(Lower(col), w)
    THEN "mean"
  ELSE "sum"

\* The cells of column col in the rows of the aggregated data's input whose
\* grouping key is key.
GroupCells(col, key) ==
  LET rows == SelectSeq([i \in 1..filtered_df.nrows |-> i],
                        LAMBDA i : filtered_df.data[GroupColumn][i] = key)
  IN [j \in 1..Len(rows) |-> filtered_df.data[col][rows[j]]]

\* C26: with no recognised operation requested, each numeric column with a
\* count-like name is reduced with sum, each with a rate-like name
\* (efficiency, rate, score) with mean, and every other numeric column with
\* sum.
C26_DefaultReductionByName ==
  (ResolvedGrouping /\ requested_funcs(calculations) = <<>>
     /\ ~is_number_dtype(filtered_df.dtype[GroupColumn])) =>
    \A c \in ReducedColumns :
      /\ col_funcs(calculations, c) = <<DescribedDefault(c)>>
      /\ c \in ColSet(aggregated_data)
      /\ \A j \in 1..aggregated_data.nrows :
           aggregated_data.data[c][j] =
             reduce(DescribedDefault(c), GroupCells(c, aggregated_data.data[GroupColumn][j]))

(* ----------------------------------------------------------------------- *)
(* Claims checked under SpecPipeline: the stages of api.query_data         *)
(* ----------------------------------------------------------------------- *)

\* C27: when the filter stage of api.query_data leaves zero rows, the request
\* ends with the "No data found matching your criteria" response and no
\* exception, and no later stage (aggregation, chart preparation) runs for
\* it.
C27_NoRowsEndsRequest ==
  [][/\ (dpc = "classified" /\ dpc' \in {"filtered", "responded"}
           /\ ~filter_raised' /\ filtered_df'.nrows = 0)
          => /\ dpc' = "responded"
             /\ query_outcome' = "no_data"
             /\ aggregated_data' = NoDf
             /\ chart_data' = NoDf
             /\ chartjs_data' = NoChart
      /\ query_outcome # "no_data"]_vars

C27_Witness ==
  /\ dpc = "responded"
  /\ query_outcome = "no_data"
  /\ ~filter_raised
  /\ filtered_df.nrows = 0
  /\ Len(filtered_df.columns) > 0
  /\ processed_df.nrows > 0

(* ----------------------------------------------------------------------- *)
(* api.py: upload_dataset, step by step.  Requests are handled one after   *)
(* the other.                                                              *)
(* ----------------------------------------------------------------------- *)

\* The number of upload requests.
MaxUploads == 2

\* allowed_extensions
AllowedExtensions == {".csv", ".xlsx", ".xls"}

\* The tables of the uploaded files: up to two columns, a header alone or a
\* header and a row.
UploadTables ==
  {MakeDataFrameFrom(PipelineCatalogue, S, 1, rows) :
     S \in {T \in SUBSET (1..3) : T # {}}, rows \in 0..1}

\* The files of the upload requests: of an extension that is allowed or not,
\* which pandas cannot read or reads to a table, with a header of texts or,
\* in a spreadsheet, of dates.
UploadFiles ==
  {[extension |-> e, content |-> "unreadable", header |-> "text", table |-> NoDf] :
     e \in {".csv", ".xlsx", ".txt"}}
    \cup {[extension |-> e, content |-> "table", header |-> "text", table |-> t] :
            e \in {".csv", ".xlsx"}, t \in UploadTables}
    \cup {[extension |-> ".xlsx", content |-> "table", header |-> "dates", table |-> t] :
            t \in UploadTables}

\* What the model answers to the column-analysis prompt of an upload: it
\* raises, or answers a JSON object that names no column, or one that names
\* as a date a column the table does not have.
UploadReplies ==
  {[kind |-> "raises", mapping |-> NoMapping],
   [kind |-> "json", mapping |-> NoMapping],
   [kind |-> "json", mapping |-> [keys |-> <<c_day>>, type |-> (c_day :> "date")]]}

\* The cleanup as it would be without the removal of the directory.
rmtree_keeps(dirs, id) == dirs

\* shutil.rmtree(session_dir, ignore_errors=True)
rmtree(dirs, id) == dirs \ {id}

\* get_universal_data_summary: the summary, or the KeyError of df[date_col]
\* for a first date column of the metadata that the table does not have.
get_universal_data_summary(df, md) ==
  IF md.date_columns # <<>> /\ md.date_columns[1] \notin ColSet(df)
    THEN [raised |-> TRUE, summary |-> NoSummary]
  ELSE [raised |-> FALSE,
        summary |-> [total_records |-> df.nrows, available_columns |-> df.columns]]

\* The handler of the inner try block followed by the outer one: the session
\* directory is removed and the request is answered with an HTTP error.
UploadProcessingError ==
  /\ session_dirs' = rmtree(session_dirs, session_id)
  /\ upload_response' = "error_500"
  /\ upload_pc' = "idle"

\* A request arrives; the file type is validated.
UploadValidateFileType ==
  /\ upload_pc = "idle"
  /\ Cardinality((session_dirs \cup DOMAIN sessions \cup {session_id}) \ {0}) < MaxUploads
  /\ \E f \in UploadFiles :
       /\ upload_file' = f
       /\ IF f.extension \in AllowedExtensions
            THEN /\ upload_pc' = "typed"
                 /\ upload_response' = "none"
            ELSE /\ upload_pc' = "idle"
                 /\ upload_response' = "error_500"
  /\ raw_df' = NoDf
  /\ processed_df' = NoDf
  /\ metadata' = NoMetadata
  /\ data_summary' = NoSummary
  /\ col_reply' = NoReply
  /\ UNCHANGED <<qvars, llm_system, dpc, second_mapping, fvars, avars, session_id,
                 session_dirs, sessions>>

\* The session id is generated, the session directory created and the file
\* saved in it, or saving it raises.
UploadSaveFile ==
  /\ upload_pc = "typed"
  /\ \E id \in 1..MaxUploads :
       /\ id \notin session_dirs \cup DOMAIN sessions \cup {session_id}
       /\ session_id' = id
       /\ session_dirs' = session_dirs \cup {id}
  /\ \E saved \in BOOLEAN :
       IF saved THEN /\ upload_pc' = "saved"
                     /\ UNCHANGED upload_response
       ELSE /\ upload_pc' = "idle"
            /\ upload_response' = "error_500"
  /\ UNCHANGED <<qvars, llm_system, dvars, upload_file, sessions, data_summary>>

\* pd.read_csv / pd.read_excel and the check of df.empty
UploadReadFile ==
  /\ upload_pc = "saved"
  /\ IF upload_file.content = "unreadable" \/ IsEmpty(upload_file.table)
       THEN /\ UploadProcessingError
            /\ UNCHANGED raw_df
       ELSE /\ raw_df' = upload_file.table
            /\ upload_pc' = "loaded"
            /\ UNCHANGED <<session_dirs, upload_response>>
  /\ UNCHANGED <<qvars, llm_system, col_reply, dpc, processed_df, metadata, second_mapping,
                 fvars, avars, upload_file, session_id, sessions, data_summary>>

\* validate_universal_columns and get_universal_data_summary.  The rules
\* lower-case every column label, which raises for a label that is a date.
UploadClassify ==
  /\ upload_pc = "loaded"
  /\ \E reply \in IF llm_system = "None" THEN {NoReply} ELSE UploadReplies :
       /\ col_reply' = reply
       /\ IF upload_file.header = "dates" /\ (llm_system = "None" \/ reply.kind # "json")
            THEN /\ UploadProcessingError
                 /\ UNCHANGED <<processed_df, metadata, data_summary>>
            ELSE LET r == validate_universal_columns(raw_df, llm_system, reply)
                     s == get_universal_data_summary(r.df, r.metadata)
                 IN /\ processed_df' = r.df
                    /\ metadata' = r.metadata
                    /\ data_summary' = s.summary
                    /\ IF s.raised THEN UploadProcessingError
                       ELSE /\ upload_pc' = "summarised"
                            /\ UNCHANGED <<session_dirs, upload_response>>
  /\ UNCHANGED <<qvars, llm_system, raw_df, dpc, second_mapping, fvars, avars,
                 upload_file, session_id, sessions>>

\* sessions[session_id] = {...}, after the summary chart, whose failure is
\* caught and printed.
UploadStoreSession ==
  /\ upload_pc = "summarised"
  /\ sessions' = [id \in DOMAIN sessions \cup {session_id} |->
                    IF id = session_id
                      THEN [data |-> processed_df, metadata |-> metadata,
                            summary |-> data_summary]
                    ELSE sessions[id]]
  /\ upload_pc' = "stored"
  /\ UNCHANGED <<qvars, llm_system, dvars, upload_file, session_id, session_dirs,
                 data_summary, upload_response>>

\* The response is built, logged with json.dumps, which raises for column
\* labels that are dates, and returned.
UploadRespond ==
  /\ upload_pc = "stored"
  /\ IF upload_file.header = "dates"
       THEN UploadProcessingError
       ELSE /\ upload_response' = "success"
            /\ upload_pc' = "idle"
            /\ UNCHANGED session_dirs
  /\ UNCHANGED <<qvars, llm_system, dvars, upload_file, session_id, sessions, data_summary>>

InitU ==
  /\ InitQuery
  /\ llm_system \in {"None", "present"}
  /\ InitNoData
  /\ InitNoUpload

NextU ==
  \/ UploadValidateFileType
  \/ UploadSaveFile
  \/ UploadReadFile
  \/ UploadClassify
  \/ UploadStoreSession
  \/ UploadRespond

SpecUpload == InitU /\ [][NextU]_vars

(* ----------------------------------------------------------------------- *)
(* Claims checked under SpecUpload                                         *)
(* ----------------------------------------------------------------------- *)

\* C28: when loading or classifying the uploaded file fails (unreadable
\* file, empty dataset, classification or summary raising), upload_dataset
\* reports an error, the session id is not in the sessions map and the
\* session directory is removed; a session enters the map only after its
\* dataset, metadata and summary were all computed, and with them.
C28_FailedLoadLeavesNoSession ==
  [][/\ (upload_pc \in {"saved", "loaded"} /\ upload_pc' = "idle")
          => /\ upload_response' = "error_500"
             /\ session_id \notin DOMAIN sessions'
             /\ session_id \notin session_dirs'
      /\ \A id \in DOMAIN sessions' \ DOMAIN sessions :
           /\ id = session_id
           /\ upload_pc = "summarised"
           /\ raw_df # NoDf /\ processed_df # NoDf /\ data_summary # NoSummary
           /\ sessions'[id] = [data |-> processed_df, metadata |-> metadata,
                               summary |-> data_summary]
           /\ metadata = validate_universal_columns(raw_df, llm_system, col_reply).metadata
      /\ DOMAIN sessions \subseteq DOMAIN sessions']_vars

C28_Witness ==
  /\ upload_pc = "idle"
  /\ upload_response = "error_500"
  /\ upload_file.content = "table"
  /\ IsEmpty(upload_file.table)
  /\ session_id # 0
  /\ session_id \notin session_dirs
  /\ session_id \notin DOMAIN sessions
  /\ DOMAIN sessions # {}

(* ----------------------------------------------------------------------- *)
(* Claims checked under SpecPipeline: the chart series                     *)
(* ----------------------------------------------------------------------- *)

\* The column of the chart data the labels of the series are read from.
LabelColumn ==
  IF chart_config.x_axis \in ColSet(chart_data)
    THEN chart_config.x_axis ELSE chart_data.columns[1]

\* C30: the chart series of a query has exactly one (label, value) entry per
\* row of the aggregated result that aggregate_data returned, in the order
\* of its rows: prepare_chart_data and prepare_chartjs_data neither merge,
\* drop nor group its rows again, whatever the grouping.
C30_SeriesHasOneEntryPerAggregatedRow ==
  (dpc = "responded" /\ query_outcome = "ok" /\ chartjs_data # NoChart) =>
    /\ Len(chartjs_data.data) = aggregated_data.nrows
    /\ LabelColumn \in ColSet(aggregated_data) =>
         \A i \in 1..Len(chartjs_data.data) :
           i <= aggregated_data.nrows =>
             chartjs_data.data[i].label = aggregated_data.data[LabelColumn][i]

====
